---- MODULE Spec2Model ----
(***************************************************************************)
(* Restaurant Popular Times API (src/main.py) and its batch aggregation    *)
(* job (src/backfill.py): the response cache, the paginated fetch loops,   *)
(* the time bucketing, the live index and the HTTP status mapping.         *)
(*                                                                         *)
(* Conventions                                                             *)
(*   - instants are whole seconds since 0000-00-00T00:00:00 UTC;           *)
(*   - Python's None is the record None where a dict or a row is expected  *)
(*     and the number NULL where an integer column is expected;            *)
(*   - a dict is a function whose DOMAIN is its key set.                   *)
(***************************************************************************)
EXTENDS Integers, Sequences, FiniteSets, TLC

VARIABLES
    now,                \* datetime.utcnow(), in seconds
    ticks,              \* number of clock advances so far
    store,              \* table restaurant_popular_times, in timestamp order
    request_cache,      \* main.py:128
    performance_stats,  \* main.py:132
    puts,               \* history: key -> the last set_cached_response on it
    got,                \* history: the get_cached_response call just returned
    resp,               \* what the operation just run returned to its caller
    fetch,              \* the paginated fetch in progress and its caller's position
    aggregates,         \* table pizza_index_aggregates: the set of its rows
    tasks,              \* the handler coroutines started and not yet returned
    trace               \* history: the requests served and their cache lookups and writes

vars == <<now, ticks, store, request_cache, performance_stats, puts, got, resp,
          fetch, aggregates, tasks, trace>>

None == [tag |-> "None"]
NoCall == [tag |-> "NoCall"]
NULL == -1

(***************************************************************************)
(* Bounds of the model.                                                    *)
(***************************************************************************)
MaxTicks == 4
MaxLookups == 3
MaxGroupRows == 3
MaxFetchRows == 5
MaxLiveRows == 2
MaxHttpRows == 2
MaxChartRows == 6
MaxBucketItems == 5
MaxServeRows == 1
MaxServeTicks == 2
MaxRequests == 3
MaxInflight == 2
\* The page size of the fetch loops (page_size = 1000 at main.py:470, main.py:608
\* and backfill.py:19), scaled down with the tables.
page_size == 2
TickSteps == {1, 59}

(***************************************************************************)
(* Response cache, main.py:127-160.                                        *)
(***************************************************************************)
CACHE_TTL == 60

Intervals == {"minute", "hour", "day"}

\* The keyword names the handlers pass, in the order of Python's str.
ParamNames == <<"days", "hours", "interval", "limit">>

NameRank(k) == CHOOSE i \in 1..Len(ParamNames) : ParamNames[i] = k

RECURSIVE insert_item(_, _)
insert_item(item, items) ==
    IF items = <<>> THEN <<item>>
    ELSE IF NameRank(item[1]) <= NameRank(Head(items)[1])
         THEN <<item>> \o items
         ELSE <<Head(items)>> \o insert_item(item, Tail(items))

\* A faulty variant: the items joined in the order the parameters were passed.
items_as_passed(params) == params

\* sorted(params.items()): the keyword names are distinct, so the order is
\* the order of the names.
RECURSIVE sorted_items(_)
sorted_items(params) ==
    IF params = <<>> THEN <<>>
    ELSE insert_item(Head(params), sorted_items(Tail(params)))

\* "&".join(parts)
RECURSIVE join(_, _)
join(sep, parts) ==
    IF parts = <<>> THEN ""
    ELSE IF Len(parts) = 1 THEN parts[1]
         ELSE parts[1] \o sep \o join(sep, Tail(parts))

\* f"{endpoint}:{param_str}" with param_str the k=v items of the sorted
\* parameters joined by "&". params is the keyword arguments in the order
\* the caller passed them, each a pair <<name, str(value)>>.
get_cache_key(endpoint, params) ==
    LET items == sorted_items(params)
        param_str == join("&", [i \in 1..Len(items) |-> items[i][1] \o "=" \o items[i][2]])
    IN  endpoint \o ":" \o param_str

\* A faulty variant: an entry still served at the instant its TTL has elapsed.
FreshInclusive(entry, t) == t - entry.timestamp <= CACHE_TTL

\* An entry stays fresh while  utcnow - timestamp < CACHE_TTL.
Fresh(entry, t) == t - entry.timestamp < CACHE_TTL

Bump(stats, field) == [stats EXCEPT ![field] = @ + 1]

\* A faulty variant: the deletion of one entry empties the cache.
DictClear(d, k) == [x \in {} |-> d[x]]

DictDel(d, k) == [x \in DOMAIN d \ {k} |-> d[x]]

DictSet(d, k, v) == [x \in DOMAIN d \cup {k} |-> IF x = k THEN v ELSE d[x]]

\* get_cached_response at instant t: the returned value, the cache and the
\* counters it leaves.
get_cached_response(cache, stats, cache_key, t) ==
    IF cache_key \in DOMAIN cache
    THEN IF Fresh(cache[cache_key], t)
         THEN [ret   |-> cache[cache_key].data,
               cache |-> cache,
               stats |-> Bump(stats, "cache_hits")]
         ELSE [ret   |-> None,
               cache |-> DictDel(cache, cache_key),
               stats |-> Bump(stats, "cache_misses")]
    ELSE [ret   |-> None,
          cache |-> cache,
          stats |-> Bump(stats, "cache_misses")]

set_cached_response(cache, cache_key, data, t) ==
    DictSet(cache, cache_key, [data |-> data, timestamp |-> t])

EmptyDict == [x \in {} |-> None]

InitStats == [cache_hits |-> 0, cache_misses |-> 0, total_requests |-> 0]

(***************************************************************************)
(* The cache on its own: any sequence of puts, gets and clock advances.    *)
(***************************************************************************)
CacheKeys == {get_cache_key("pizza_index_live", <<<<"interval", i>>>>) : i \in {"hour", "day"}}

Payloads == {[value |-> v] : v \in {1000, 1240}}

InitCache ==
    /\ now = 0
    /\ ticks = 0
    /\ store = <<>>
    /\ request_cache = EmptyDict
    /\ performance_stats = InitStats
    /\ puts = EmptyDict
    /\ got = NoCall
    /\ resp = NoCall
    /\ fetch = NoCall
    /\ aggregates = {}
    /\ tasks = <<>>
    /\ trace = <<>>

Tick ==
    /\ ticks < MaxTicks
    /\ \E d \in TickSteps : now' = now + d
    /\ ticks' = ticks + 1
    /\ got' = NoCall
    /\ UNCHANGED <<tasks, trace, store, request_cache, performance_stats, puts, resp, fetch,
                   aggregates>>

Put ==
    \E k \in CacheKeys, v \in Payloads :
        /\ request_cache' = set_cached_response(request_cache, k, v, now)
        /\ puts' = DictSet(puts, k, [data |-> v, timestamp |-> now])
        /\ got' = NoCall
        /\ UNCHANGED <<tasks, trace, now, ticks, store, performance_stats, resp, fetch, aggregates>>

Get ==
    \E k \in CacheKeys :
        LET r == get_cached_response(request_cache, performance_stats, k, now) IN
        /\ performance_stats.cache_hits + performance_stats.cache_misses < MaxLookups
        /\ request_cache' = r.cache
        /\ performance_stats' = r.stats
        /\ got' = [key |-> k, ret |-> r.ret]
        /\ trace' = Append(trace, [kind |-> "get", key |-> k])
        /\ UNCHANGED <<tasks, now, ticks, store, puts, resp, fetch, aggregates>>

NextCache == Tick \/ Put \/ Get

SpecCache == InitCache /\ [][NextCache]_vars

\* C1: a get of key k returns the payload of the last put on k while less
\* than CACHE_TTL seconds have passed since that put, and a miss (None) once
\* CACHE_TTL seconds or more have passed, whatever hits happened in between;
\* a key never put is a miss.
C1_PutGetWithinTTL ==
    got # NoCall =>
        IF got.key \in DOMAIN puts
        THEN IF now - puts[got.key].timestamp < CACHE_TTL
             THEN got.ret = puts[got.key].data
             ELSE got.ret = None
        ELSE got.ret = None

\* A get that was a hit after an earlier hit, and a get that missed an
\* expired entry.
C1_Witness ==
    /\ got # NoCall
    /\ got.key \in DOMAIN puts
    /\ now - puts[got.key].timestamp >= CACHE_TTL
    /\ got.ret = None
    /\ performance_stats.cache_hits >= 1

\* The counters cache_hits and cache_misses.
Hits == performance_stats.cache_hits

Misses == performance_stats.cache_misses

\* The step is a call of get_cached_response on key k.
IsLookup(k) == got' # NoCall /\ got'.key = k /\ Len(trace') = Len(trace) + 1

LookupEffect(k) ==
    LET exists  == k \in DOMAIN request_cache
        live    == exists /\ now - request_cache[k].timestamp < CACHE_TTL
    IN  /\ IF live
           THEN Hits' = Hits + 1 /\ Misses' = Misses
           ELSE Hits' = Hits /\ Misses' = Misses + 1
        /\ got'.ret = IF live THEN request_cache[k].data ELSE None
        /\ (exists /\ ~live) => k \notin DOMAIN request_cache'
        /\ DOMAIN request_cache' \ {k} = DOMAIN request_cache \ {k}
        /\ \A x \in DOMAIN request_cache \ {k} : request_cache'[x] = request_cache[x]
        /\ live => (k \in DOMAIN request_cache' /\ request_cache'[k] = request_cache[k])

\* C18: every get_cached_response call adds one to exactly one of cache_hits
\* and cache_misses, to cache_hits iff the key has an entry that has not
\* expired; a call that finds an expired entry deletes it, counts a miss and
\* leaves every other entry as it was; no other step changes a counter, and
\* cache_hits + cache_misses is the number of calls made.
C18_OneCounterPerLookup ==
    /\ [](Hits + Misses = Len(trace))
    /\ [][/\ \A k \in CacheKeys : IsLookup(k) => LookupEffect(k)
          /\ (Len(trace') = Len(trace)) => (Hits' = Hits /\ Misses' = Misses)]_vars

\* A call that found an expired entry and deleted it while the other key
\* kept its entry, after a hit.
C18_Witness ==
    /\ got # NoCall
    /\ got.ret = None
    /\ got.key \in DOMAIN puts
    /\ got.key \notin DOMAIN request_cache
    /\ DOMAIN request_cache # {}
    /\ Hits >= 1
    /\ Misses >= 1
    /\ Len(trace) = Hits + Misses

(***************************************************************************)
(* Timestamps.  A timestamp string is modelled by its parts: the text      *)
(* before the fraction (text: "datetime" for a well-formed                 *)
(* YYYY-MM-DDTHH:MM:SS, "date" for a well-formed YYYY-MM-DD, "other" for   *)
(* a text no parse accepts; sec: the second the text denotes read as UTC), *)
(* the characters of the fraction (<<>>: no '.'; a date and another text   *)
(* carry none), and the suffix after it ("", "Z" or an offset).  A string  *)
(* handed to datetime.fromisoformat has for suffix the sequence of the     *)
(* offsets that end it.  datetime.fromisoformat is the strict parser       *)
(* main.py:183-184 is written against: it reads the first 10 characters as *)
(* the date, skips one character and reads the rest as the time, with a    *)
(* fraction of 3 or 6 digits only, at most one offset, and no 'Z'.         *)
(***************************************************************************)
\* A character of a fraction is a digit 0..9 or OtherChar for any other one.
OtherChar == 10

IsDigits(cs) == \A i \in 1..Len(cs) : cs[i] \in 0..9

RECURSIVE DigitsValue(_)
DigitsValue(ds) ==
    IF ds = <<>> THEN 0 ELSE 10 * DigitsValue(SubSeq(ds, 1, Len(ds) - 1)) + ds[Len(ds)]

Micro(frac) ==
    IF Len(frac) = 3 THEN 1000 * DigitsValue(frac) ELSE DigitsValue(frac)

\* The offsets a suffix is made of, and the seconds they stand for.
OffsetSeconds(o) ==
    CASE o = "+00:00" -> 0
      [] o = "+05:30" -> 19800
      [] o = "-05:00" -> 0 - 18000

\* The HH:MM of an offset read as a time of day.
ClockSeconds(o) == IF OffsetSeconds(o) < 0 THEN 0 - OffsetSeconds(o) ELSE OffsetSeconds(o)

StartsWithPlus(o) == OffsetSeconds(o) >= 0

\* The characters of an offset: the sign and the colon are no digits.
OffsetChars(o) ==
    CASE o = "+00:00" -> <<OtherChar, 0, 0, OtherChar, 0, 0>>
      [] o = "+05:30" -> <<OtherChar, 0, 5, OtherChar, 3, 0>>
      [] o = "-05:00" -> <<OtherChar, 0, 5, OtherChar, 0, 0>>

\* datetime.fromisoformat accepts the string.  After a date, the sign of a
\* first offset is the skipped character and its HH:MM is read as the time.
IsoOk(ts) ==
    CASE ts.text = "datetime" ->
            /\ Len(ts.frac) \in {0, 3, 6}
            /\ IsDigits(ts.frac)
            /\ Len(ts.tz) <= 1
      [] ts.text = "date" ->
            /\ ts.frac = <<>>
            /\ Len(ts.tz) <= 2
      [] OTHER -> FALSE

\* The value datetime.fromisoformat returns: aware iff the time is followed
\* by an offset.
fromisoformat(ts) ==
    CASE ts.text = "datetime" ->
            [sec    |-> ts.sec - (IF ts.tz = <<>> THEN 0 ELSE OffsetSeconds(ts.tz[1])),
             micro  |-> Micro(ts.frac),
             aware  |-> ts.tz # <<>>,
             warned |-> FALSE]
      [] ts.text = "date" ->
            [sec    |-> ts.sec + (IF ts.tz = <<>> THEN 0 ELSE ClockSeconds(ts.tz[1]))
                              - (IF Len(ts.tz) = 2 THEN OffsetSeconds(ts.tz[2]) ELSE 0),
             micro  |-> 0,
             aware  |-> Len(ts.tz) = 2,
             warned |-> FALSE]

\* main.py:175-178: the suffix handed to the first parse.
SuffixForParse(tz) ==
    IF tz = "Z" THEN <<"+00:00">>
    ELSE IF tz = "+00:00" THEN <<tz>>
    ELSE IF tz = "" THEN <<"+00:00">>
    ELSE <<tz, "+00:00">>

\* A faulty variant: a fraction of 5 digits left as it is.
FixMicroNoPad(frac) ==
    IF Len(frac) > 6 THEN SubSeq(frac, 1, 6)
    ELSE frac

\* main.py:197-201: the fraction with 5 characters padded, more than 6 cut.
FixMicro(frac) ==
    IF Len(frac) = 5 THEN Append(frac, 0)
    ELSE IF Len(frac) > 6 THEN SubSeq(frac, 1, 6)
    ELSE frac

\* main.py:186-193: micro_part split at its first '+'.
micro_seconds(first) ==
    IF StartsWithPlus(first.tz[1]) THEN first.frac
    ELSE first.frac \o OffsetChars(first.tz[1])

tz_part(first) ==
    IF StartsWithPlus(first.tz[1]) THEN first.tz ELSE Tail(first.tz)

\* main.py:213-218: the text before the first '.', or before the first '+'
\* when there is no '.', followed by +00:00.
base_part(first) ==
    IF first.frac # <<>> \/ StartsWithPlus(first.tz[1])
    THEN [first EXCEPT !.frac = <<>>, !.tz = <<"+00:00">>]
    ELSE [first EXCEPT !.frac = <<>>, !.tz = <<first.tz[1], "+00:00">>]

\* parse_timestamp_robust at instant t (the fallback of last resort is t,
\* after logger.warning).
parse_timestamp_robust(ts, t) ==
    LET first  == [ts EXCEPT !.tz = SuffixForParse(ts.tz)]
        fixed  == [first EXCEPT !.frac = FixMicro(micro_seconds(first)),
                                !.tz = tz_part(first)]
        base   == base_part(first)
    IN  IF IsoOk(first) THEN fromisoformat(first)
        ELSE IF first.frac # <<>> /\ IsoOk(fixed) THEN fromisoformat(fixed)
        ELSE IF IsoOk(base) THEN fromisoformat(base)
        ELSE [sec |-> t, micro |-> 0, aware |-> TRUE, warned |-> TRUE]

(***************************************************************************)
(* Buckets: datetime.replace zeroing the finer fields, on UTC instants.    *)
(***************************************************************************)
Unit(g) == CASE g = "minute" -> 60 [] g = "hour" -> 3600 [] g = "day" -> 86400

minute_key(sec) == sec - (sec % 60)

\* A faulty variant of the hour key: the minutes left in place.
hour_key_keeps_minutes(sec) == sec - (sec % 60)

hour_key(sec) == sec - (sec % 3600)

\* A faulty variant of the day key: the hours left in place.
day_key_keeps_hours(sec) == sec - (sec % 3600)

day_key(sec) == sec - (sec % 86400)

bucket_key(g, sec) ==
    CASE g = "minute" -> minute_key(sec)
      [] g = "hour"   -> hour_key(sec)
      [] g = "day"    -> day_key(sec)

\* A faulty variant: the list started afresh at every item.
group_item_overwrite(d, key, item) == DictSet(d, key, <<item>>)

\* if key not in d: d[key] = [] ; d[key].append(item)
group_item(d, key, item) ==
    IF key \in DOMAIN d
    THEN DictSet(d, key, Append(d[key], item))
    ELSE DictSet(d, key, <<item>>)

\* for item in data: ... of the chart handlers, from item i on.
RECURSIVE group_loop(_, _, _, _, _)
group_loop(data, i, g, t, d) ==
    IF i > Len(data) THEN d
    ELSE group_loop(data, i + 1, g, t,
             group_item(d, bucket_key(g, parse_timestamp_robust(data[i].timestamp, t).sec),
                        data[i]))

group_by(data, g, t) == group_loop(data, 1, g, t, EmptyDict)

\* backfill.py:45-57.  datetime.fromisoformat(ts.replace('Z', '+00:00')) raises
\* on a string the strict parser refuses; an unknown interval skips the item.
BackfillIsoOk(ts) ==
    IsoOk([ts EXCEPT !.tz = IF ts.tz = "Z" THEN <<"+00:00">>
                             ELSE IF ts.tz = "" THEN <<>>
                             ELSE <<ts.tz>>])

RECURSIVE backfill_loop(_, _, _, _)
backfill_loop(data, i, interval, d) ==
    IF i > Len(data) THEN d
    ELSE IF interval \notin Intervals THEN backfill_loop(data, i + 1, interval, d)
    ELSE backfill_loop(data, i + 1, interval,
             group_item(d, bucket_key(interval, data[i].timestamp.sec), data[i]))

backfill_buckets(data, interval) ==
    IF \E i \in 1..Len(data) : ~BackfillIsoOk(data[i].timestamp)
    THEN [raised |-> TRUE,  buckets |-> EmptyDict]
    ELSE [raised |-> FALSE, buckets |-> backfill_loop(data, 1, interval, EmptyDict)]

(***************************************************************************)
(* The grouping step on its own: every input sequence of rows of the       *)
(* bounded shapes below, grouped at every granularity by the chart         *)
(* handlers' loop and by the batch job's.                                  *)
(***************************************************************************)
SeqsUpTo(S, n) == UNION {[1..k -> S] : k \in 0..n}

\* A row of restaurant_popular_times: the columns the handlers compute with
\* (rating in tenths, NULL where absent).
Row(i, rid, ts, pop, rating) ==
    [id |-> i, restaurant_id |-> rid, timestamp |-> ts, current_popularity |-> pop,
     rating |-> rating]

\* Rows numbered by their place in the table.
MkStore(cols) ==
    [i \in DOMAIN cols |-> Row(i, cols[i].rid, cols[i].ts, cols[i].pop, cols[i].rating)]

SortedBySec(cols) ==
    \A i \in DOMAIN cols : \A j \in DOMAIN cols : i < j => cols[i].ts.sec <= cols[j].ts.sec

GroupSecs == {60, 3599, 3600, 86400}

GroupShapes ==
    {[frac |-> <<>>, tz |-> "Z"],
     [frac |-> <<1, 2, 3, 4, 5>>, tz |-> "+00:00"],
     [frac |-> <<1, 2, 3, 4, 5, 6>>, tz |-> ""]}

GroupCols ==
    {[rid |-> "extreme_pizza",
      ts  |-> [text |-> "datetime", sec |-> s, frac |-> sh.frac, tz |-> sh.tz],
      pop |-> p, rating |-> NULL] : s \in GroupSecs, sh \in GroupShapes, p \in {NULL, 10}}

InitGroup ==
    /\ now = 100000
    /\ ticks = 0
    /\ store \in {MkStore(c) : c \in {x \in SeqsUpTo(GroupCols, MaxGroupRows) : SortedBySec(x)}}
    /\ request_cache = EmptyDict
    /\ performance_stats = InitStats
    /\ puts = EmptyDict
    /\ got = NoCall
    /\ resp = NoCall
    /\ fetch = NoCall
    /\ aggregates = {}
    /\ tasks = <<>>
    /\ trace = <<>>

GroupMain ==
    \E g \in Intervals :
        /\ resp' = [op |-> "group_by", g |-> g, raised |-> FALSE,
                    groups |-> group_by(store, g, now)]
        /\ UNCHANGED <<tasks, trace, now, ticks, store, request_cache, performance_stats,
                       puts, got, fetch, aggregates>>

GroupBackfill ==
    \E g \in Intervals :
        LET b == backfill_buckets(store, g) IN
        /\ resp' = [op |-> "backfill_buckets", g |-> g, raised |-> b.raised,
                    groups |-> b.buckets]
        /\ UNCHANGED <<tasks, trace, now, ticks, store, request_cache, performance_stats,
                       puts, got, fetch, aggregates>>

NextGroup == GroupMain \/ GroupBackfill

SpecGroup == InitGroup /\ [][NextGroup]_vars

InBucket(row, g, k) == k <= row.timestamp.sec /\ row.timestamp.sec < k + Unit(g)

IsGrouping == resp # NoCall /\ resp.op \in {"group_by", "backfill_buckets"} /\ ~resp.raised

GroupInstants ==
    {store[i].timestamp.sec : i \in DOMAIN store} \cup
    (IF IsGrouping THEN DOMAIN resp.groups ELSE {})

\* C25: the bucket start is idempotent at every granularity, on every instant
\* met: the bucket start of a bucket start is that bucket start.  Every row
\* of a completed grouping lies under the key that is its own bucket start,
\* the key is a whole multiple of the unit, and
\* key <= row time < key + one unit.
C25_BucketStartIdempotent ==
    /\ \A g \in Intervals : \A t \in GroupInstants :
          bucket_key(g, bucket_key(g, t)) = bucket_key(g, t)
    /\ IsGrouping =>
          \A k \in DOMAIN resp.groups :
              /\ k % Unit(resp.g) = 0
              /\ bucket_key(resp.g, k) = k
              /\ \A i \in DOMAIN resp.groups[k] :
                    LET t == resp.groups[k][i].timestamp.sec IN
                    /\ bucket_key(resp.g, t) = k
                    /\ k <= t /\ t < k + Unit(resp.g)

\* The batch job's grouping by day of a row one hour into the first day and
\* a row at the start of the second: two buckets, the first row strictly
\* inside its own.
C25_Witness ==
    /\ IsGrouping
    /\ resp.op = "backfill_buckets"
    /\ resp.g = "day"
    /\ DOMAIN resp.groups = {0, 86400}
    /\ \E i \in DOMAIN resp.groups[0] : resp.groups[0][i].timestamp.sec = 3600

(***************************************************************************)
(* Aggregation of one bucket and the chart series.  Decimal results are    *)
(* kept in tenths: value 1240 is 124.0, avg_popularity 300 is 30.0.        *)
(***************************************************************************)
Min(a, b) == IF a <= b THEN a ELSE b

\* round(n / d, 0) for n >= 0, d > 0, ties to even as Python's round.
RoundDiv(n, d) ==
    LET q == n \div d
        r == n % d
    IN  IF 2 * r < d THEN q
        ELSE IF 2 * r > d THEN q + 1
        ELSE IF q % 2 = 0 THEN q ELSE q + 1

\* A faulty variant: the average taken over all the items of the bucket.
AllItems(items) == [i \in DOMAIN items |->
                       IF items[i].current_popularity = NULL
                       THEN [items[i] EXCEPT !.current_popularity = 0] ELSE items[i]]

\* if item.get('current_popularity') is not None
ValidItems(items) == SelectSeq(items, LAMBDA it : it.current_popularity # NULL)

RECURSIVE SumPopularity(_)
SumPopularity(items) ==
    IF items = <<>> THEN 0
    ELSE items[1].current_popularity + SumPopularity(Tail(items))

\* A faulty variant: the popularity added to 100 without the 0.8 scale.
IndexTenthsUnscaled(total, count) == RoundDiv(1000 * count + 10 * total, count)

\* round(100 + (total / count) * 0.8, 1), in tenths.
IndexTenths(total, count) == RoundDiv(1000 * count + 8 * total, count)

\* round(total / count, 1), in tenths.
AvgTenths(total, count) == RoundDiv(10 * total, count)

\* One chart point, main.py:508-526 (and the hour, day and fallback copies);
\* a bucket with no valid item gives no point (data_points 0 here).
chart_point(key, items) ==
    LET valid == ValidItems(items)
        total_popularity == SumPopularity(valid)
        valid_count == Len(valid)
    IN  [timestamp         |-> key,
         value             |-> IF valid_count > 0 THEN IndexTenths(total_popularity, valid_count) ELSE 0,
         avg_popularity    |-> IF valid_count > 0 THEN AvgTenths(total_popularity, valid_count) ELSE 0,
         data_points       |-> valid_count,
         total_restaurants |-> Len(items)]

\* A faulty variant: the keys taken latest first.
RECURSIVE DescendingKeys(_)
DescendingKeys(S) ==
    IF S = {} THEN <<>>
    ELSE LET m == CHOOSE x \in S : \A y \in S : x >= y
         IN  <<m>> \o DescendingKeys(S \ {m})

RECURSIVE SortedKeys(_)
SortedKeys(S) ==
    IF S = {} THEN <<>>
    ELSE LET m == CHOOSE x \in S : \A y \in S : x <= y
         IN  <<m>> \o SortedKeys(S \ {m})

\* seq[::n]
Stride(seq, n) == [i \in 1..((Len(seq) + n - 1) \div n) |-> seq[(i - 1) * n + 1]]

\* A faulty variant: every bucket kept at every granularity.
EveryKey(d, interval) == SortedKeys(DOMAIN d)

\* sorted(minute_data.keys())[::5], sorted(hourly_data.keys())[::2], sorted(daily_data.items())
SampledKeys(d, interval) ==
    CASE interval = "minute" -> Stride(SortedKeys(DOMAIN d), 5)
      [] interval = "hour"   -> Stride(SortedKeys(DOMAIN d), 2)
      [] interval = "day"    -> SortedKeys(DOMAIN d)

\* A faulty variant: a point appended for every bucket.
PointsOfEveryBucket(d, keys) == [i \in 1..Len(keys) |-> chart_point(keys[i], d[keys[i]])]

PointsOf(d, keys) ==
    SelectSeq([i \in 1..Len(keys) |-> chart_point(keys[i], d[keys[i]])],
              LAMBDA pt : pt.data_points > 0)

\* chart_data of get_pizza_index_chart_data, main.py:497-582.
chart_data_sampled(data, interval, t) ==
    IF interval \notin Intervals THEN <<>>
    ELSE LET d == group_by(data, interval, t)
         IN  PointsOf(d, SampledKeys(d, interval))

\* chart_data of get_pizza_index_chart_data_fallback, main.py:644-747.
chart_data_fallback(data, interval, t) ==
    IF interval \notin Intervals THEN <<>>
    ELSE LET d == group_by(data, interval, t)
         IN  PointsOf(d, SortedKeys(DOMAIN d))

\* A faulty variant: every row posted as a row of the hour interval.
agg_data_as_hour(interval, bucket, items) ==
    [interval       |-> "hour",
     timestamp      |-> bucket,
     value          |-> 1000,
     avg_popularity |-> 0,
     data_points    |-> Len(ValidItems(items))]

\* backfill.py:66-82: the row upserted for one bucket.
agg_data(interval, bucket, items) ==
    LET valid == ValidItems(items)
        total_popularity == SumPopularity(valid)
        valid_count == Len(valid)
    IN  [interval       |-> interval,
         timestamp      |-> bucket,
         value          |-> IF valid_count > 0 THEN IndexTenths(total_popularity, valid_count) ELSE 1000,
         avg_popularity |-> IF valid_count > 0 THEN AvgTenths(total_popularity, valid_count) ELSE 0,
         data_points    |-> valid_count]

\* A faulty variant: the store inserts the row of every POST.
insert_row(table, row) == table \cup {row}

\* The store's answer to an accepted POST with Prefer:
\* resolution=merge-duplicates on pizza_index_aggregates: the row replaces the
\* one with the same (interval, timestamp), if any.
upsert(table, row) ==
    {r \in table : r.interval # row.interval \/ r.timestamp # row.timestamp} \cup {row}

\* backfill.py:67-87: one POST per item of buckets; accepted: the buckets
\* whose POST the store answers with 200 or 201 (another answer is printed
\* and the loop goes on).
RECURSIVE upsert_loop(_, _, _, _, _, _)
upsert_loop(buckets, keys, i, interval, accepted, out) ==
    IF i > Len(keys) THEN out
    ELSE LET row == agg_data(interval, keys[i], buckets[keys[i]])
         IN  upsert_loop(buckets, keys, i + 1, interval, accepted,
                 [table |-> IF keys[i] \in accepted THEN upsert(out.table, row) ELSE out.table,
                  posts |-> Append(out.posts, row)])

\* aggregate_and_upsert, backfill.py:43-87, on the aggregates table: the
\* table it leaves and the rows it posted, in the order of the POSTs.
aggregate_and_upsert(data, interval, table, accepted) ==
    LET b == backfill_buckets(data, interval) IN
    IF b.raised THEN [raised |-> TRUE, table |-> table, posts |-> <<>>]
    ELSE LET out == upsert_loop(b.buckets, SortedKeys(DOMAIN b.buckets), 1, interval, accepted,
                                [table |-> table, posts |-> <<>>])
         IN  [raised |-> FALSE, table |-> out.table, posts |-> out.posts]

\* The buckets of a call of aggregate_and_upsert.
bucket_starts(data, interval) == DOMAIN backfill_buckets(data, interval).buckets

(***************************************************************************)
(* Paginated fetch: main.py:468-495 (chart), main.py:606-641 (fallback),   *)
(* backfill.py:12-41 (batch job).                                          *)
(***************************************************************************)
\* The rows the store holds for  timestamp=gte.cutoff  in  order=timestamp.asc.
Matching(table, cutoff) == SelectSeq(table, LAMBDA row : row.timestamp.sec >= cutoff)

\* limit=page_size & offset=offset
Page(table, offset) == SubSeq(table, offset + 1, Min(offset + page_size, Len(table)))

\* A faulty variant: a full page taken for the last one.
ShortPageInclusive(page) == Len(page) <= page_size

\* if len(page_data) < page_size: break
ShortPage(page) == Len(page) < page_size

\* A faulty variant: the loop left on an error with the rows read so far.
OnErrorLeave(f) == [f EXCEPT !.pc = "returned", !.failed = TRUE]

\* main.py:491-493: raise HTTPException(500), out of the handler.
OnErrorRaise(f) == [f EXCEPT !.pc = "raised", !.failed = TRUE]

\* A faulty variant: the loop goes round again after an error, asking for the
\* same page.
OnErrorRetry(f) == [f EXCEPT !.failed = TRUE]

\* backfill.py:30-32: print and break; all_data so far is returned.
OnErrorBreak(f) == [f EXCEPT !.pc = "returned", !.failed = TRUE]

\* A faulty variant: the offset moved on by one row less than a page.
fetch_step_overlap(f, table, status) ==
    LET page == Page(table, f.offset)
        sent == [f EXCEPT !.requests = Append(@, [offset |-> f.offset, status |-> status])]
        more == [sent EXCEPT !.all_data = @ \o page, !.offset = @ + page_size - 1]
    IN  IF status # 200
        THEN IF f.who = "backfill" THEN OnErrorBreak(sent) ELSE OnErrorRaise(sent)
        ELSE IF page = <<>> THEN [sent EXCEPT !.pc = "returned"]
        ELSE IF ShortPage(page) THEN [more EXCEPT !.pc = "returned"]
        ELSE more

\* One turn of the while loop, the store answering the page request with status.
fetch_step(f, table, status) ==
    LET page == Page(table, f.offset)
        sent == [f EXCEPT !.requests = Append(@, [offset |-> f.offset, status |-> status])]
        more == [sent EXCEPT !.all_data = @ \o page, !.offset = @ + page_size]
    IN  IF status # 200
        THEN IF f.who = "backfill" THEN OnErrorBreak(sent) ELSE OnErrorRaise(sent)
        ELSE IF page = <<>> THEN [sent EXCEPT !.pc = "returned"]
        ELSE IF ShortPage(page) THEN [more EXCEPT !.pc = "returned"]
        ELSE more

NewFetch(who, days, interval, cutoff) ==
    [who |-> who, days |-> days, interval |-> interval, cutoff |-> cutoff,
     pc |-> "loop", offset |-> 0, all_data |-> <<>>, requests |-> <<>>, failed |-> FALSE]

\* total_requests += 1 of update_performance_stats, main.py:162-169 (the
\* running average of the response time is not modelled).
update_performance_stats(stats) == Bump(stats, "total_requests")

\* HTTPException(status_code=500, detail="Internal server error")
Http(status) == [status |-> status, body |-> None]

ChartBody(chart_data, days, interval, n) ==
    [chart_data |-> chart_data, period_days |-> days, interval |-> interval,
     total_data_points |-> n]

(***************************************************************************)
(* The fetch loops page by page: one table, one fetch by one of the three  *)
(* callers, the store free to fail any page request, and what the caller   *)
(* does with the rows.                                                     *)
(***************************************************************************)
FetchSecs == {50000, 150000, 190000}

FetchCols ==
    {[rid |-> "extreme_pizza",
      ts  |-> [text |-> "datetime", sec |-> s, frac |-> <<1, 2, 3, 4, 5, 6>>, tz |-> "+00:00"],
      pop |-> p, rating |-> NULL] : s \in FetchSecs, p \in {NULL, 10}}

SecondsOfDays(days) == days * 86400

InitFetch ==
    /\ now = 200000
    /\ ticks = 0
    /\ store \in {MkStore(c) : c \in {x \in SeqsUpTo(FetchCols, MaxFetchRows) : SortedBySec(x)}}
    /\ request_cache = EmptyDict
    /\ performance_stats = InitStats
    /\ puts = EmptyDict
    /\ got = NoCall
    /\ resp = NoCall
    /\ fetch = NoCall
    /\ aggregates = {}
    /\ tasks = <<>>
    /\ trace = <<>>

\* get_pizza_index_chart_data up to its first page request, main.py:452-471.
StartChart ==
    /\ fetch = NoCall
    /\ \E interval \in Intervals \cup {"week"} :
        LET days == 1
            key  == get_cache_key("pizza_index_chart", <<<<"days", ToString(days)>>, <<"interval", interval>>>>)
            r    == get_cached_response(request_cache, performance_stats, key, now)
        IN  /\ request_cache' = r.cache
            /\ IF r.ret # None
               THEN /\ performance_stats' = update_performance_stats(r.stats)
                    /\ resp' = [status |-> 200, body |-> r.ret]
                    /\ fetch' = fetch
               ELSE /\ performance_stats' = r.stats
                    /\ resp' = resp
                    /\ fetch' = NewFetch("chart", days, interval, now - SecondsOfDays(days))
    /\ UNCHANGED <<tasks, trace, now, ticks, store, puts, got, aggregates>>

\* get_pizza_index_chart_data_fallback up to its first page request, main.py:597-610.
StartFallback ==
    /\ fetch = NoCall
    /\ \E interval \in Intervals \cup {"week"} :
        fetch' = NewFetch("fallback", 1, interval, now - SecondsOfDays(1))
    /\ UNCHANGED <<tasks, trace, now, ticks, store, request_cache, performance_stats, puts,
                   got, resp,
                   aggregates>>

\* fetch_all_popular_times up to its first page request, backfill.py:12-20.
StartBackfill ==
    /\ fetch = NoCall
    /\ fetch' = NewFetch("backfill", 0, "all", 0)
    /\ UNCHANGED <<tasks, trace, now, ticks, store, request_cache, performance_stats, puts,
                   got, resp,
                   aggregates>>

\* One page request and its answer.  In the two handlers a non-200 answer
\* raises, and the handler's  except Exception  answers 500.
FetchPage ==
    /\ fetch # NoCall
    /\ fetch.pc = "loop"
    /\ \E status \in {200, 500} :
        LET f == fetch_step(fetch, Matching(store, fetch.cutoff), status) IN
        /\ fetch' = f
        /\ resp' = IF f.pc = "raised" THEN Http(500) ELSE resp
    /\ UNCHANGED <<tasks, trace, now, ticks, store, request_cache, performance_stats, puts,
                   got, aggregates>>

\* main.py:494-592 and main.py:640-754: the rows aggregated and answered.
ChartRespond ==
    /\ fetch # NoCall
    /\ fetch.pc = "returned"
    /\ fetch.who \in {"chart", "fallback"}
    /\ LET data == fetch.all_data
           body == ChartBody(IF fetch.who = "chart"
                             THEN chart_data_sampled(data, fetch.interval, now)
                             ELSE chart_data_fallback(data, fetch.interval, now),
                             fetch.days, fetch.interval, Len(data))
           key  == get_cache_key("pizza_index_chart",
                                 <<<<"days", ToString(fetch.days)>>, <<"interval", fetch.interval>>>>)
       IN  /\ resp' = [status |-> 200, body |-> body]
           /\ IF fetch.who = "chart"
              THEN /\ request_cache' = set_cached_response(request_cache, key, body, now)
                   /\ performance_stats' = update_performance_stats(performance_stats)
              ELSE UNCHANGED <<request_cache, performance_stats>>
    /\ fetch' = [fetch EXCEPT !.pc = "answered"]
    /\ UNCHANGED <<tasks, trace, now, ticks, store, puts, got, aggregates>>

\* backfill.py:89-93: aggregate_and_upsert(all_data, ...) for minute, hour, day.
BackfillNext(pc) ==
    CASE pc = "returned"    -> [interval |-> "minute", then |-> "minute_done"]
      [] pc = "minute_done" -> [interval |-> "hour",   then |-> "hour_done"]
      [] pc = "hour_done"   -> [interval |-> "day",    then |-> "exit"]

BackfillAggregate ==
    /\ fetch # NoCall
    /\ fetch.who = "backfill"
    /\ fetch.pc \in {"returned", "minute_done", "hour_done"}
    /\ \E posted \in BOOLEAN :
        LET step == BackfillNext(fetch.pc)
            r    == aggregate_and_upsert(fetch.all_data, step.interval, aggregates,
                                         IF posted THEN bucket_starts(fetch.all_data, step.interval)
                                         ELSE {})
        IN  /\ aggregates' = r.table
            /\ fetch' = [fetch EXCEPT !.pc = IF r.raised THEN "crashed" ELSE step.then]
    /\ UNCHANGED <<tasks, trace, now, ticks, store, request_cache, performance_stats, puts,
                   got, resp>>

NextFetch ==
    \/ StartChart
    \/ StartFallback
    \/ StartBackfill
    \/ FetchPage
    \/ ChartRespond
    \/ BackfillAggregate

SpecFetch == InitFetch /\ [][NextFetch]_vars

FetchTable == Matching(store, fetch.cutoff)

\* C3: a fetch that ended with every page answered 200 has issued exactly
\* floor(N / page_size) + 1 page requests, at offsets 0, page_size,
\* 2 * page_size, ..., and returns the N matching rows of the store, each
\* once, in the store's order.
C3_FetchComplete ==
    (fetch # NoCall /\ fetch.pc # "loop" /\ ~fetch.failed) =>
        /\ Len(fetch.requests) = (Len(FetchTable) \div page_size) + 1
        /\ \A i \in DOMAIN fetch.requests : fetch.requests[i].offset = (i - 1) * page_size
        /\ fetch.all_data = FetchTable

\* Two full pages and a short one; and a table of exactly two pages, whose
\* third request comes back empty.
C3_Witness ==
    /\ fetch # NoCall /\ fetch.pc = "returned" /\ ~fetch.failed
    /\ Len(fetch.requests) = 3
    /\ Len(fetch.all_data) = 2 * page_size + 1

\* The page requests of the fetch so far form a chain: request k asks for
\* offset (k - 1) * page_size, every request but the last was answered 200
\* with a full page, and the loop is still running only if the last one was.
FullPageAt(k) ==
    /\ fetch.requests[k].status = 200
    /\ Len(Page(FetchTable, fetch.requests[k].offset)) = page_size

RequestChain ==
    fetch # NoCall =>
        /\ \A k \in DOMAIN fetch.requests :
              /\ fetch.requests[k].offset = (k - 1) * page_size
              /\ k < Len(fetch.requests) => FullPageAt(k)
        /\ (fetch.pc = "loop" /\ fetch.requests # <<>>) => FullPageAt(Len(fetch.requests))

\* A step issues at most one page request, and none once the loop is left.
OneRequestAtATime ==
    fetch # NoCall =>
        /\ fetch' # NoCall
        /\ Len(fetch'.requests) <= Len(fetch.requests) + 1
        /\ SubSeq(fetch'.requests, 1, Len(fetch.requests)) = fetch.requests
        /\ fetch.pc # "loop" => fetch'.requests = fetch.requests

\* C26: within one paginated fetch the page requests are a strictly
\* sequential chain: request k + 1 is issued only after request k was
\* answered 200 with a full page of page_size rows, at an offset page_size
\* higher; after a non-success answer, a short page or an empty page the
\* fetch issues no further page request.
C26_SequentialChain == []RequestChain /\ [][OneRequestAtATime]_vars

\* A handler's fetch ended by a failed second page request after a full
\* first page, and the batch job's fetch ended by a short second page.
C26_Witness ==
    /\ fetch # NoCall
    /\ fetch.pc \in {"raised", "returned"}
    /\ Len(fetch.requests) = 2
    /\ fetch.requests[1].status = 200
    /\ \/ fetch.who = "chart" /\ fetch.requests[2].status = 500
       \/ /\ fetch.who = "backfill" /\ fetch.requests[2].status = 200
          /\ Len(FetchTable) = page_size + 1

\* C4: once a page request of a fetch got a non-success answer, the rows of
\* the pages fetched before it are never given back as a result: no 200
\* answer is built from them and none of them is aggregated and upserted.
C4_FailedFetchAborts ==
    (fetch # NoCall /\ fetch.failed) =>
        /\ fetch.pc \notin {"answered"}
        /\ aggregates = {}

\* The fetched rows in the bucket that starts at k, all and with a popularity.
FetchedIn(k) ==
    {i \in DOMAIN fetch.all_data :
        fetch.all_data[i].timestamp.sec
            - (fetch.all_data[i].timestamp.sec % Unit(fetch.interval)) = k}

FetchedValidIn(k) == {i \in FetchedIn(k) : fetch.all_data[i].current_popularity # NULL}

ChartSeriesAnswered ==
    /\ fetch # NoCall
    /\ fetch.who \in {"chart", "fallback"}
    /\ fetch.pc = "answered"
    /\ fetch.interval \in Intervals

\* C22: in the series of /pizza-index/chart-data and of the fallback, every
\* point has 1 <= data_points <= total_restaurants, with total_restaurants
\* the number of samples of its bucket and data_points the number of those
\* with a popularity: a bucket with no valid sample has no point.
C22_ZeroValidBucketOmitted ==
    ChartSeriesAnswered =>
        \A i \in DOMAIN resp.body.chart_data :
            LET pt == resp.body.chart_data[i] IN
            /\ 1 <= pt.data_points
            /\ pt.data_points <= pt.total_restaurants
            /\ pt.total_restaurants = Cardinality(FetchedIn(pt.timestamp))
            /\ pt.data_points = Cardinality(FetchedValidIn(pt.timestamp))

\* The fallback answered with a point of a bucket that holds a sample
\* without popularity, while another bucket with samples has no valid one
\* and no point.
C22_Witness ==
    /\ ChartSeriesAnswered
    /\ fetch.who = "fallback"
    /\ \E i \in DOMAIN resp.body.chart_data :
          resp.body.chart_data[i].data_points < resp.body.chart_data[i].total_restaurants
    /\ \E r \in DOMAIN fetch.all_data :
          LET k == fetch.all_data[r].timestamp.sec
                      - (fetch.all_data[r].timestamp.sec % Unit(fetch.interval))
          IN  /\ FetchedValidIn(k) = {}
              /\ \A i \in DOMAIN resp.body.chart_data : resp.body.chart_data[i].timestamp # k

(***************************************************************************)
(* The live index: get_all_latest_data (main.py:1062-1111) and             *)
(* calculate_pizza_index (main.py:244-371).                                *)
(***************************************************************************)
\* The keys of RESTAURANTS, main.py:54-87.
RestaurantIds ==
    {"extreme_pizza", "colony_grill", "wise_guy", "night_hawk", "district_pizza",
     "we_the_pizza", "dominos_1", "dominos_2"}

RowsOf(table, rid) == SelectSeq(table, LAMBDA row : row.restaurant_id = rid)

\* A faulty variant: the oldest row of the restaurant.
first_row(table, rid) ==
    LET rows == RowsOf(table, rid) IN IF rows = <<>> THEN None ELSE rows[1]

\* restaurant_id=eq.rid & order=timestamp.desc & limit=1 : data[0], or None.
latest_row(table, rid) ==
    LET rows == RowsOf(table, rid) IN IF rows = <<>> THEN None ELSE rows[Len(rows)]

\* get_all_latest_data: failing is the set of restaurants whose request the
\* store answers with a non-200 status.
get_all_latest_data(table, failing) ==
    [rid \in RestaurantIds |->
        IF rid \in failing
        THEN [latest_data |-> None, error |-> TRUE]
        ELSE [latest_data |-> latest_row(table, rid), error |-> FALSE]]

\* round(n / d), ties to even, for any sign of n.
RoundDivSigned(n, d) == IF n >= 0 THEN RoundDiv(n, d) ELSE 0 - RoundDiv(0 - n, d)

RECURSIVE SumOver(_, _)
SumOver(S, f) ==
    IF S = {} THEN 0
    ELSE LET x == CHOOSE y \in S : TRUE IN f[x] + SumOver(S \ {x}, f)

\* main.py:282-289
lookback_time(interval, t) ==
    CASE interval = "minute" -> t - 60
      [] interval = "hour"   -> t - 3600
      [] interval = "day"    -> t - 86400
      [] OTHER               -> t - 3600

\* A faulty variant: every row the historical query returned is kept.
in_lookback(interval, item_sec, t) == item_sec <= t

\* main.py:316, 326, 336: the window test of the previous period.
in_previous_period(interval, item_sec, t) ==
    /\ bucket_key(interval, t - Unit(interval)) <= item_sec
    /\ item_sec < bucket_key(interval, t)

\* calculate_pizza_index at instant t; hist_status: the store's answer to the
\* historical query.  Returns the PizzaIndexData and the function's local
\* period_data (<<>> where it is never assigned).
calculate_pizza_index(latest, interval, table, hist_status, t) ==
    LET valid == {rid \in RestaurantIds :
                     /\ latest[rid].latest_data # None
                     /\ latest[rid].latest_data.current_popularity # NULL}
        popularity == [rid \in valid |-> latest[rid].latest_data.current_popularity]
        total_popularity == SumOver(valid, popularity)
        active_count == Cardinality(valid)
        historical_data == IF hist_status = 200
                           THEN Matching(table, lookback_time(interval, t))
                           ELSE <<>>
        period_data == IF historical_data # <<>> /\ interval \in Intervals
                       THEN SelectSeq(historical_data, LAMBDA d :
                                in_previous_period(interval,
                                    parse_timestamp_robust(d.timestamp, t).sec, t))
                       ELSE <<>>
        prev_valid == ValidItems(period_data)
        P == SumPopularity(prev_valid)
        B == Len(prev_valid)
        \* round(index_value - prev_index_value, 1), in tenths
        change == IF B = 0 THEN 0
                  ELSE IF active_count = 0 THEN RoundDivSigned(0 - 8 * P, B)
                  ELSE RoundDivSigned(8 * (total_popularity * B - P * active_count),
                                      active_count * B)
        \* round(change / prev_index_value * 100, 2), in hundredths
        change_percent == IF B = 0 THEN 0
                          ELSE RoundDivSigned(10000 * change * B, 1000 * B + 8 * P)
    IN  [timestamp          |-> t,
         value              |-> IF active_count > 0
                                THEN IndexTenths(total_popularity, active_count) ELSE 1000,
         change             |-> change,
         changePercent      |-> change_percent,
         total_popularity   |-> total_popularity,
         avg_popularity     |-> IF active_count > 0
                                THEN AvgTenths(total_popularity, active_count) ELSE 0,
         active_restaurants |-> active_count,
         total_restaurants  |-> Cardinality(RestaurantIds),
         restaurant_data    |-> [rid \in valid |->
                                    [popularity |-> popularity[rid],
                                     timestamp  |-> latest[rid].latest_data.timestamp,
                                     id         |-> latest[rid].latest_data.id]],
         period_data        |-> period_data]

\* response_data of get_pizza_index_live, main.py:414-435.
LiveBody(pi, interval) ==
    [value |-> pi.value, change |-> pi.change, changePercent |-> pi.changePercent,
     timestamp |-> pi.timestamp, total_popularity |-> pi.total_popularity,
     avg_popularity |-> pi.avg_popularity, active_restaurants |-> pi.active_restaurants,
     total_restaurants |-> pi.total_restaurants, interval |-> interval,
     restaurants |-> pi.restaurant_data]

\* get_pizza_index_live after a cache miss, main.py:408-440, at instant t.
live_on_miss(cache, stats, table, interval, failing, hist_status, t) ==
    LET key  == get_cache_key("pizza_index_live", <<<<"interval", interval>>>>)
        pi   == calculate_pizza_index(get_all_latest_data(table, failing), interval,
                                      table, hist_status, t)
        body == LiveBody(pi, interval)
    IN  [status |-> 200, body |-> body,
         cache |-> set_cached_response(cache, key, body, t), stats |-> stats,
         cached |-> FALSE, store_requests |-> Cardinality(RestaurantIds) + 1,
         store_failed |-> failing # {} \/ hist_status # 200,
         period_data |-> pi.period_data]

\* get_pizza_index_live, main.py:397-444, at instant t: the answer, the cache
\* and counters it leaves, and the store requests it made.
get_pizza_index_live(cache, stats, table, interval, failing, hist_status, t) ==
    LET key == get_cache_key("pizza_index_live", <<<<"interval", interval>>>>)
        r   == get_cached_response(cache, stats, key, t)
    IN  IF r.ret # None
        THEN [status |-> 200, body |-> r.ret, cache |-> r.cache, stats |-> r.stats,
              cached |-> TRUE, store_requests |-> 0, store_failed |-> FALSE,
              period_data |-> <<>>]
        ELSE live_on_miss(r.cache, r.stats, table, interval, failing, hist_status, t)

(***************************************************************************)
(* The live index on its own: one request at one instant over every table  *)
(* of the bounded shapes below, the store free to fail its requests.       *)
(***************************************************************************)
\* The request instant: day 1, 14:30:30.
LiveNow == 138630

\* Row instants around the windows of LiveNow: the previous day before and
\* after the 24 h lookback, the previous hour before and after the 1 h
\* lookback, the previous minute before and after the 1 min lookback, and the
\* current minute.
LiveSecs == {40000, 80000, 134000, 136000, 138550, 138580, 138610}

LiveCols ==
    {[rid |-> rid,
      ts  |-> [text |-> "datetime", sec |-> s, frac |-> <<1, 2, 3, 4, 5>>, tz |-> "+00:00"],
      pop |-> p, rating |-> NULL] : rid \in {"extreme_pizza", "colony_grill"},
                                    s \in LiveSecs, p \in {NULL, 10, 50}}

FailSets == {{}, {"extreme_pizza"}, RestaurantIds}

InitLive ==
    /\ now = LiveNow
    /\ ticks = 0
    /\ store \in {MkStore(c) : c \in {x \in SeqsUpTo(LiveCols, MaxLiveRows) : SortedBySec(x)}}
    /\ request_cache = EmptyDict
    /\ performance_stats = InitStats
    /\ puts = EmptyDict
    /\ got = NoCall
    /\ resp = NoCall
    /\ fetch = NoCall
    /\ aggregates = {}
    /\ tasks = <<>>
    /\ trace = <<>>

LiveRequest ==
    /\ resp = NoCall
    /\ \E interval \in Intervals \cup {"week"}, failing \in FailSets, hist_status \in {200, 500} :
        LET a == get_pizza_index_live(request_cache, performance_stats, store, interval,
                                      failing, hist_status, now)
        IN  /\ resp' = [op |-> "live", interval |-> interval, status |-> a.status,
                        body |-> a.body, cached |-> a.cached,
                        store_requests |-> a.store_requests,
                        store_failed |-> a.store_failed, failing |-> failing,
                        hist_status |-> hist_status, period_data |-> a.period_data]
            /\ request_cache' = a.cache
            /\ performance_stats' = a.stats
    /\ UNCHANGED <<tasks, trace, now, ticks, store, puts, got, fetch, aggregates>>

NextLive == LiveRequest

SpecLive == InitLive /\ [][NextLive]_vars

Ids(rows) == {rows[i].id : i \in DOMAIN rows}

\* The start of the bucket of granularity g that contains instant t.
BucketStartOf(g, t) == CHOOSE k \in (t - Unit(g) + 1)..t : k % Unit(g) = 0

LiveAnswered == resp # NoCall /\ resp.op = "live" /\ resp.interval \in Intervals

\* C6: for each interval the previous index of /pizza-index/live is computed
\* from exactly the store's rows of the bucket before the one that contains
\* the request instant: every row in [current start - 1 unit, current start)
\* and no other row.
C6_PreviousIsWholePreviousBucket ==
    (LiveAnswered /\ resp.hist_status = 200) =>
        Ids(resp.period_data) =
            {store[i].id : i \in {j \in DOMAIN store :
                /\ BucketStartOf(resp.interval, now) - Unit(resp.interval) <= store[j].timestamp.sec
                /\ store[j].timestamp.sec < BucketStartOf(resp.interval, now)}}

CurrentWindowRows ==
    SelectSeq(store, LAMBDA row :
        /\ BucketStartOf(resp.interval, now) <= row.timestamp.sec
        /\ row.timestamp.sec < BucketStartOf(resp.interval, now) + Unit(resp.interval))

\* C7 as claimed: the current index of /pizza-index/live is the index of the
\* current window, computed from the rows whose timestamps lie in the bucket
\* that contains the request instant.
C7_CurrentIsCurrentWindow ==
    (LiveAnswered /\ resp.failing = {}) =>
        /\ \A rid \in DOMAIN resp.body.restaurants :
              resp.body.restaurants[rid].id \in Ids(CurrentWindowRows)
        /\ resp.body.value =
              IF ValidItems(CurrentWindowRows) = <<>> THEN 1000
              ELSE IndexTenths(SumPopularity(ValidItems(CurrentWindowRows)),
                               Len(ValidItems(CurrentWindowRows)))

\* The most recent row of restaurant rid: the one no row of rid comes after.
IsLatestOf(i, rid) ==
    /\ store[i].restaurant_id = rid
    /\ \A j \in DOMAIN store : store[j].restaurant_id = rid => j <= i

\* The rows the current index is entitled to: per restaurant whose request
\* succeeded, its most recent row, if that row carries a popularity.
LatestValid ==
    {i \in DOMAIN store :
        /\ store[i].restaurant_id \notin resp.failing
        /\ IsLatestOf(i, store[i].restaurant_id)
        /\ store[i].current_popularity # NULL}

\* C7 as amended: the current index of /pizza-index/live is computed from the
\* most recent row of each restaurant whose latest-row request succeeded and
\* whose row carries a popularity, whatever that row's timestamp (100.0 when
\* there is none); the change is reported against the previous-period rows the
\* handler selected, and is 0.0 when none of them carries a popularity.
C7_CurrentIsLatestPerRestaurant ==
    LiveAnswered =>
        /\ {resp.body.restaurants[rid].id : rid \in DOMAIN resp.body.restaurants}
              = {store[i].id : i \in LatestValid}
        /\ resp.body.total_popularity =
              SumOver(LatestValid, [i \in LatestValid |-> store[i].current_popularity])
        /\ resp.body.active_restaurants = Cardinality(LatestValid)
        /\ resp.body.value =
              IF LatestValid = {} THEN 1000
              ELSE RoundDiv(1000 * resp.body.active_restaurants + 8 * resp.body.total_popularity,
                            resp.body.active_restaurants)
        /\ ValidItems(resp.period_data) = <<>> => resp.body.change = 0

\* A live answer whose current index rests on a row older than the current
\* window, with a change computed against the previous period.
C7_Witness ==
    /\ LiveAnswered
    /\ resp.interval = "hour"
    /\ resp.body.active_restaurants = 1
    /\ \E i \in LatestValid : store[i].timestamp.sec < BucketStartOf("hour", now)
    /\ resp.body.change # 0

(***************************************************************************)
(* The HTTP handlers, each as a function of the table, its parameters and  *)
(* the store's answers: the status it answers with, the body, and the      *)
(* store requests it made (store_failed: one of them was answered with a   *)
(* non-200 status).                                                        *)
(***************************************************************************)
Answer(status, body, n, failed) ==
    [status |-> status, body |-> body, store_requests |-> n, store_failed |-> failed]

Reverse(seq) == [i \in 1..Len(seq) |-> seq[Len(seq) + 1 - i]]

Take(seq, n) == SubSeq(seq, 1, Min(n, Len(seq)))

\* The while loop of a fetch run to its end; the store answers page request
\* number fail_at with status 500 and every other one with 200.
RECURSIVE run_fetch(_, _, _)
run_fetch(f, table, fail_at) ==
    IF f.pc # "loop" THEN f
    ELSE run_fetch(fetch_step(f, table, IF Len(f.requests) + 1 = fail_at THEN 500 ELSE 200),
                   table, fail_at)

\* A faulty variant: the entry written and the counter updated before the
\* pages are fetched, so that a failed request leaves them behind.
chart_on_miss_writes_first(cache, stats, table, days, interval, fail_at, t) ==
    LET key  == get_cache_key("pizza_index_chart", <<<<"days", ToString(days)>>, <<"interval", interval>>>>)
        f    == run_fetch(NewFetch("chart", days, interval, t - SecondsOfDays(days)),
                          Matching(table, t - SecondsOfDays(days)), fail_at)
        body == ChartBody(chart_data_sampled(f.all_data, interval, t), days, interval,
                          Len(f.all_data))
    IN  [status |-> IF f.pc = "raised" THEN 500 ELSE 200,
         body |-> IF f.pc = "raised" THEN None ELSE body,
         cache |-> set_cached_response(cache, key, body, t),
         stats |-> update_performance_stats(stats),
         cached |-> FALSE, store_requests |-> Len(f.requests),
         store_failed |-> f.failed]

\* get_pizza_index_chart_data after a cache miss, main.py:462-595.
chart_on_miss(cache, stats, table, days, interval, fail_at, t) ==
    LET key  == get_cache_key("pizza_index_chart", <<<<"days", ToString(days)>>, <<"interval", interval>>>>)
        f    == run_fetch(NewFetch("chart", days, interval, t - SecondsOfDays(days)),
                          Matching(table, t - SecondsOfDays(days)), fail_at)
        body == ChartBody(chart_data_sampled(f.all_data, interval, t), days, interval,
                          Len(f.all_data))
    IN  IF f.pc = "raised"
        THEN [status |-> 500, body |-> None, cache |-> cache, stats |-> stats,
              cached |-> FALSE, store_requests |-> Len(f.requests), store_failed |-> TRUE]
        ELSE [status |-> 200, body |-> body,
              cache |-> set_cached_response(cache, key, body, t),
              stats |-> update_performance_stats(stats),
              cached |-> FALSE, store_requests |-> Len(f.requests),
              store_failed |-> f.failed]

\* get_pizza_index_chart_data, main.py:446-595.
get_pizza_index_chart_data(cache, stats, table, days, interval, fail_at, t) ==
    LET key == get_cache_key("pizza_index_chart", <<<<"days", ToString(days)>>, <<"interval", interval>>>>)
        r   == get_cached_response(cache, stats, key, t)
    IN  IF r.ret # None
        THEN [status |-> 200, body |-> r.ret, cache |-> r.cache,
              stats |-> update_performance_stats(r.stats),
              cached |-> TRUE, store_requests |-> 0, store_failed |-> FALSE]
        ELSE chart_on_miss(r.cache, r.stats, table, days, interval, fail_at, t)

\* The cutoff of get_restaurant_data, main.py:783-788 (NULL: no time filter).
data_cutoff(days, hours, t) ==
    IF days # NULL /\ days # 0 THEN t - SecondsOfDays(days)
    ELSE IF hours # NULL /\ hours # 0 THEN t - hours * 3600
    ELSE 0

\* get_restaurant_data, main.py:759-807.
get_restaurant_data(table, restaurant_id, limit, days, hours, status, t) ==
    IF restaurant_id \notin RestaurantIds THEN Answer(404, None, 0, FALSE)
    ELSE IF status # 200 THEN Answer(500, None, 1, TRUE)
    ELSE LET rows == Reverse(Matching(RowsOf(table, restaurant_id),
                                      data_cutoff(days, hours, t)))
         IN  Answer(200, IF limit # NULL /\ limit # 0 THEN Take(rows, limit) ELSE rows,
                    1, FALSE)

\* A faulty variant: the registry test left out.
get_restaurant_latest_unchecked(table, restaurant_id, status) ==
    IF status # 200 THEN Answer(500, None, 1, TRUE)
    ELSE IF latest_row(table, restaurant_id) = None THEN Answer(404, None, 1, FALSE)
    ELSE Answer(200, latest_row(table, restaurant_id), 1, FALSE)

\* get_restaurant_latest, main.py:809-844.
get_restaurant_latest(table, restaurant_id, status) ==
    IF restaurant_id \notin RestaurantIds THEN Answer(404, None, 0, FALSE)
    ELSE IF status # 200 THEN Answer(500, None, 1, TRUE)
    ELSE IF latest_row(table, restaurant_id) = None THEN Answer(404, None, 1, FALSE)
    ELSE Answer(200, latest_row(table, restaurant_id), 1, FALSE)

\* A faulty variant: a bucket without valid item reported with popularity 0.
restaurant_point_zero(key, items) ==
    LET valid_items == ValidItems(items) IN
    [timestamp      |-> key,
     popularity     |-> IF valid_items # <<>>
                        THEN valid_items[Len(valid_items)].current_popularity ELSE 0,
     rating         |-> IF valid_items # <<>> THEN valid_items[Len(valid_items)].rating ELSE NULL,
     data_points    |-> Len(valid_items),
     total_attempts |-> Len(items),
     data_quality   |-> <<Len(valid_items), Len(items)>>]

\* One point of get_restaurant_chart_data, main.py:911-936 and 951-975.
restaurant_point(key, items) ==
    LET valid_items == ValidItems(items) IN
    IF valid_items # <<>>
    THEN [timestamp      |-> key,
          popularity     |-> valid_items[Len(valid_items)].current_popularity,
          rating         |-> valid_items[Len(valid_items)].rating,
          data_points    |-> Len(valid_items),
          total_attempts |-> Len(items),
          data_quality   |-> <<Len(valid_items), Len(items)>>]
    ELSE [timestamp      |-> key,
          popularity     |-> NULL,
          rating         |-> NULL,
          data_points    |-> 0,
          total_attempts |-> Len(items),
          data_quality   |-> <<0, 1>>,
          status         |-> "no_data"]

\* get_restaurant_chart_data, main.py:846-992.  The HTTPException(400) of an
\* interval other than hour and day is raised inside the try block, whose
\* except Exception  turns it into a 500.
get_restaurant_chart_data(table, restaurant_id, days, interval, status, t) ==
    IF restaurant_id \notin RestaurantIds THEN Answer(404, None, 0, FALSE)
    ELSE IF interval \notin {"hour", "day"} THEN Answer(500, None, 0, FALSE)
    ELSE IF status # 200 THEN Answer(500, None, 1, TRUE)
    ELSE LET data == Take(Matching(RowsOf(table, restaurant_id), t - SecondsOfDays(days)),
                          IF interval = "hour" THEN 2000 ELSE 500)
             d    == group_by(data, interval, t)
             keys == SampledKeys(d, interval)
         IN  Answer(200,
                    [restaurant_id |-> restaurant_id,
                     chart_data |-> [i \in 1..Len(keys) |-> restaurant_point(keys[i], d[keys[i]])],
                     period_days |-> days, interval |-> interval,
                     total_data_points |-> Len(data)],
                    1, FALSE)

SeqToSet(seq) == {seq[i] : i \in DOMAIN seq}

RECURSIVE SumSeq(_)
SumSeq(seq) == IF seq = <<>> THEN 0 ELSE seq[1] + SumSeq(Tail(seq))

MinOf(S) == CHOOSE x \in S : \A y \in S : x <= y

MaxOf(S) == CHOOSE x \in S : \A y \in S : x >= y

Column(rows, col) == [i \in 1..Len(rows) |-> rows[i][col]]

\* A faulty variant: latest is the value of the first row, present or not.
column_stats_first_row(rows, col) ==
    LET xs == SelectSeq(Column(rows, col), LAMBDA x : x # NULL) IN
    [latest  |-> IF rows # <<>> THEN rows[1][col] ELSE NULL,
     average |-> IF xs # <<>> THEN <<SumSeq(xs), Len(xs)>> ELSE <<NULL, 1>>,
     min     |-> IF xs # <<>> THEN MinOf(SeqToSet(xs)) ELSE NULL,
     max     |-> IF xs # <<>> THEN MaxOf(SeqToSet(xs)) ELSE NULL]

\* latest / average / min / max of a column's present values, main.py:1039-1048;
\* the average is kept as the pair <<sum, count>>.
column_stats(rows, col) ==
    LET xs == SelectSeq(Column(rows, col), LAMBDA x : x # NULL) IN
    [latest  |-> IF xs # <<>> THEN xs[1] ELSE NULL,
     average |-> IF xs # <<>> THEN <<SumSeq(xs), Len(xs)>> ELSE <<NULL, 1>>,
     min     |-> IF xs # <<>> THEN MinOf(SeqToSet(xs)) ELSE NULL,
     max     |-> IF xs # <<>> THEN MaxOf(SeqToSet(xs)) ELSE NULL]

stats_of(rows) ==
    [data_points        |-> Len(rows),
     latest_data        |-> IF rows # <<>> THEN rows[1] ELSE None,
     current_popularity |-> column_stats(rows, "current_popularity"),
     rating             |-> [latest  |-> column_stats(rows, "rating").latest,
                             average |-> column_stats(rows, "rating").average]]

\* get_restaurant_stats, main.py:994-1060.
get_restaurant_stats(table, restaurant_id, days, status, t) ==
    IF restaurant_id \notin RestaurantIds THEN Answer(404, None, 0, FALSE)
    ELSE IF status # 200 THEN Answer(500, None, 1, TRUE)
    ELSE LET data == Reverse(Matching(RowsOf(table, restaurant_id), t - SecondsOfDays(days)))
         IN  IF data = <<>>
             THEN Answer(200, [restaurant_id |-> restaurant_id, period_days |-> days,
                               data_points |-> 0], 1, FALSE)
             ELSE Answer(200, [restaurant_id |-> restaurant_id, period_days |-> days,
                               stats |-> stats_of(data)], 1, FALSE)

\* GET /data/latest: get_all_latest_data as an endpoint, main.py:1062-1111.
get_data_latest(table, failing) ==
    Answer(200, get_all_latest_data(table, failing), Cardinality(RestaurantIds),
           failing # {})

\* get_data_summary, main.py:1113-1179.
get_data_summary(table, days, status, t) ==
    IF status # 200 THEN Answer(500, None, 1, TRUE)
    ELSE LET data == Reverse(Matching(table, t - SecondsOfDays(days)))
             rids == {data[i].restaurant_id : i \in DOMAIN data}
         IN  Answer(200, [period_days |-> days, total_data_points |-> Len(data),
                          restaurants |-> [rid \in rids |-> stats_of(RowsOf(data, rid))]],
                    1, FALSE)

(***************************************************************************)
(* The HTTP surface: one request to one of the eight data endpoints at one *)
(* instant, over every table of the bounded shapes below, with every       *)
(* parameter value of the sets below, the store free to fail any request.  *)
(***************************************************************************)
\* Row instants: older than a day, within the day, within the current minute.
HttpSecs == {LiveNow - 100000, LiveNow - 4000, LiveNow - 10}

\* A present popularity is 10, and also 20 for a row of the current minute, so
\* that two present values of one restaurant can differ.
HttpPops(s) == IF s = LiveNow - 10 THEN {NULL, 10, 20} ELSE {NULL, 10}

HttpCols ==
    UNION {{[rid |-> rid,
             ts  |-> [text |-> "datetime", sec |-> s, frac |-> <<1, 2, 3, 4, 5, 6>>,
                      tz |-> "+00:00"],
             pop |-> p, rating |-> r] : rid \in {"extreme_pizza", "colony_grill"},
                                        p \in HttpPops(s), r \in {NULL, 45}} : s \in HttpSecs}

\* The path parameter: two registered restaurants and an id of no restaurant.
PathIds == {"extreme_pizza", "colony_grill", "foo"}

\* The interval parameter: the three known values and an unknown one.
IntervalParams == Intervals \cup {"week"}

InitHttp ==
    /\ now = LiveNow
    /\ ticks = 0
    /\ store \in {MkStore(c) : c \in {x \in SeqsUpTo(HttpCols, MaxHttpRows) : SortedBySec(x)}}
    /\ request_cache = EmptyDict
    /\ performance_stats = InitStats
    /\ puts = EmptyDict
    /\ got = NoCall
    /\ resp = NoCall
    /\ fetch = NoCall
    /\ aggregates = {}
    /\ tasks = <<>>
    /\ trace = <<>>

\* What the client and the store saw of one request.
Served(op, restaurant_id, interval, failing, a) ==
    [op |-> op, restaurant_id |-> restaurant_id, interval |-> interval,
     failing |-> failing, status |-> a.status, body |-> a.body,
     store_requests |-> a.store_requests, store_failed |-> a.store_failed]

\* GET /pizza-index/live
HttpLive ==
    /\ resp = NoCall
    /\ \E interval \in IntervalParams, failing \in FailSets, hist_status \in {200, 500} :
        LET a == get_pizza_index_live(request_cache, performance_stats, store, interval,
                                      failing, hist_status, now)
        IN  /\ resp' = [Served("live", "", interval, failing, a) EXCEPT
                            !.failing = IF hist_status = 200 THEN failing
                                        ELSE failing \cup {"history"}]
            /\ request_cache' = a.cache
            /\ performance_stats' = a.stats
    /\ UNCHANGED <<tasks, trace, now, ticks, store, puts, got, fetch, aggregates>>

\* GET /pizza-index/chart-data
HttpChart ==
    /\ resp = NoCall
    /\ \E interval \in IntervalParams, fail_at \in 0..2 :
        LET a == get_pizza_index_chart_data(request_cache, performance_stats, store, 1,
                                            interval, fail_at, now)
        IN  /\ resp' = Served("chart", "", interval, {}, a)
            /\ request_cache' = a.cache
            /\ performance_stats' = a.stats
    /\ UNCHANGED <<tasks, trace, now, ticks, store, puts, got, fetch, aggregates>>

\* GET /restaurant/{restaurant_id}/data
HttpRestaurantData ==
    /\ resp = NoCall
    /\ \E restaurant_id \in PathIds, limit \in {NULL, 1}, days \in {NULL, 1},
          hours \in {NULL, 2}, status \in {200, 500} :
        resp' = Served("restaurant_data", restaurant_id, "", {},
                       get_restaurant_data(store, restaurant_id, limit, days, hours,
                                           status, now))
    /\ UNCHANGED <<tasks, trace, now, ticks, store, request_cache, performance_stats, puts,
                   got, fetch, aggregates>>

\* GET /restaurant/{restaurant_id}/latest
HttpRestaurantLatest ==
    /\ resp = NoCall
    /\ \E restaurant_id \in PathIds, status \in {200, 500} :
        resp' = Served("restaurant_latest", restaurant_id, "", {},
                       get_restaurant_latest(store, restaurant_id, status))
    /\ UNCHANGED <<tasks, trace, now, ticks, store, request_cache, performance_stats, puts,
                   got, fetch, aggregates>>

\* GET /restaurant/{restaurant_id}/chart-data
HttpRestaurantChart ==
    /\ resp = NoCall
    /\ \E restaurant_id \in PathIds, interval \in IntervalParams, status \in {200, 500} :
        resp' = Served("restaurant_chart", restaurant_id, interval, {},
                       get_restaurant_chart_data(store, restaurant_id, 1, interval,
                                                 status, now))
    /\ UNCHANGED <<tasks, trace, now, ticks, store, request_cache, performance_stats, puts,
                   got, fetch, aggregates>>

\* GET /restaurant/{restaurant_id}/stats
HttpRestaurantStats ==
    /\ resp = NoCall
    /\ \E restaurant_id \in PathIds, status \in {200, 500} :
        resp' = Served("restaurant_stats", restaurant_id, "", {},
                       get_restaurant_stats(store, restaurant_id, 1, status, now))
    /\ UNCHANGED <<tasks, trace, now, ticks, store, request_cache, performance_stats, puts,
                   got, fetch, aggregates>>

\* GET /data/latest
HttpDataLatest ==
    /\ resp = NoCall
    /\ \E failing \in FailSets :
        resp' = Served("data_latest", "", "", failing, get_data_latest(store, failing))
    /\ UNCHANGED <<tasks, trace, now, ticks, store, request_cache, performance_stats, puts,
                   got, fetch, aggregates>>

\* GET /data/summary
HttpDataSummary ==
    /\ resp = NoCall
    /\ \E status \in {200, 500} :
        resp' = Served("data_summary", "", "", {}, get_data_summary(store, 1, status, now))
    /\ UNCHANGED <<tasks, trace, now, ticks, store, request_cache, performance_stats, puts,
                   got, fetch, aggregates>>

NextHttp ==
    \/ HttpLive
    \/ HttpChart
    \/ HttpRestaurantData
    \/ HttpRestaurantLatest
    \/ HttpRestaurantChart
    \/ HttpRestaurantStats
    \/ HttpDataLatest
    \/ HttpDataSummary

SpecHttp == InitHttp /\ [][NextHttp]_vars

HttpAnswered == resp # NoCall /\ "op" \in DOMAIN resp

\* C8 as claimed: whichever data endpoint is asked, a non-2xx answer of the
\* store to any of its requests makes the endpoint answer 500.
C8_StoreFailureIs500 ==
    (HttpAnswered /\ resp.store_failed) => resp.status = 500

\* C8 as amended: a non-2xx answer of the store to any request of
\* /pizza-index/chart-data, /restaurant/{id}/data, /latest, /chart-data,
\* /stats or /data/summary makes the endpoint answer 500 with no data (and
\* chart-data caches nothing).  /pizza-index/live and /data/latest answer 200
\* instead: /data/latest marks each restaurant whose request failed with an
\* error and no latest data and reports the others; /pizza-index/live leaves
\* the restaurants whose request failed out of the index, and reports a
\* change of 0 when its historical request failed.
C8_StoreFailureByEndpoint ==
    (HttpAnswered /\ resp.store_failed) =>
        CASE resp.op = "live" ->
                /\ resp.status = 200
                /\ DOMAIN resp.body.restaurants \cap resp.failing = {}
                /\ "history" \in resp.failing =>
                      resp.body.change = 0 /\ resp.body.changePercent = 0
          [] resp.op = "data_latest" ->
                /\ resp.status = 200
                /\ \A rid \in RestaurantIds :
                      IF rid \in resp.failing
                      THEN resp.body[rid].error /\ resp.body[rid].latest_data = None
                      ELSE /\ ~resp.body[rid].error
                           /\ resp.body[rid].latest_data = latest_row(store, rid)
          [] OTHER ->
                /\ resp.status = 500
                /\ resp.body = None
                /\ request_cache = EmptyDict

\* /pizza-index/live answering 200 with an index built from the one
\* restaurant whose request succeeded while another one's request failed.
C8_Witness ==
    /\ HttpAnswered
    /\ resp.op = "live"
    /\ resp.failing = {"extreme_pizza"}
    /\ resp.status = 200
    /\ resp.body.active_restaurants = 1

\* C9: an interval outside the endpoint's accepted set ({hour, day} for
\* /restaurant/{id}/chart-data, {minute, hour, day} for /pizza-index/live and
\* /pizza-index/chart-data) is rejected with status 400 and no aggregation
\* result is returned.
C9_InvalidIntervalIs400 ==
    (/\ HttpAnswered
     /\ \/ resp.op \in {"live", "chart"} /\ resp.interval \notin Intervals
        \/ /\ resp.op = "restaurant_chart"
           /\ resp.restaurant_id \in RestaurantIds
           /\ resp.interval \notin {"hour", "day"})
    => (resp.status = 400 /\ resp.body = None)

RestaurantOps == {"restaurant_data", "restaurant_latest", "restaurant_chart", "restaurant_stats"}

\* C10: each of /restaurant/{id}/data, /latest, /chart-data and /stats answers
\* 404 for an id that is not a key of RESTAURANTS, without a store request;
\* /restaurant/{id}/latest also answers 404 for a registered id when the
\* store answers 200 with no row.
C10_NotFound ==
    HttpAnswered =>
        /\ (resp.op \in RestaurantOps /\ resp.restaurant_id \notin RestaurantIds) =>
              (resp.status = 404 /\ resp.store_requests = 0)
        /\ (/\ resp.op = "restaurant_latest"
            /\ resp.restaurant_id \in RestaurantIds
            /\ ~resp.store_failed
            /\ RowsOf(store, resp.restaurant_id) = <<>>) =>
              (resp.status = 404 /\ resp.store_requests = 1)

\* /latest of a registered restaurant with no row in a table that has rows of
\* another one: one store request, answered 200 and empty, then 404.
C10_Witness ==
    /\ HttpAnswered
    /\ resp.op = "restaurant_latest"
    /\ resp.restaurant_id = "colony_grill"
    /\ store # <<>>
    /\ resp.store_requests = 1
    /\ ~resp.store_failed
    /\ resp.status = 404

RestaurantChartAnswered ==
    /\ HttpAnswered
    /\ resp.op = "restaurant_chart"
    /\ resp.status = 200

\* The samples of the restaurant in the window of the request that the
\* store returns (the first 2000 for hour, the first 500 for day).
RestaurantWindowRows ==
    LET all == {i \in DOMAIN store : /\ store[i].restaurant_id = resp.restaurant_id
                                      /\ store[i].timestamp.sec >= now - SecondsOfDays(1)}
        limit == IF resp.interval = "hour" THEN 2000 ELSE 500
    IN  {i \in all : Cardinality({j \in all : j < i}) < limit}

RestaurantBucketRows(k) ==
    {i \in RestaurantWindowRows :
        store[i].timestamp.sec - (store[i].timestamp.sec % Unit(resp.interval)) = k}

RestaurantBuckets ==
    {store[i].timestamp.sec - (store[i].timestamp.sec % Unit(resp.interval)) :
        i \in RestaurantWindowRows}

\* The buckets the handler keeps: every second hour from the earliest, every day.
RestaurantKeptBuckets ==
    {k \in RestaurantBuckets :
        \/ resp.interval = "day"
        \/ Cardinality({b \in RestaurantBuckets : b < k}) % 2 = 0}

WithoutPopularity(k) ==
    \A i \in RestaurantBucketRows(k) : store[i].current_popularity = NULL

\* The series holds exactly one no-data record for bucket k.
NoDataReported(k) ==
    /\ Cardinality({i \in DOMAIN resp.body.chart_data :
                       resp.body.chart_data[i].timestamp = k}) = 1
    /\ \A i \in DOMAIN resp.body.chart_data :
          LET pt == resp.body.chart_data[i] IN
          pt.timestamp = k =>
             /\ pt.popularity = NULL
             /\ pt.data_points = 0
             /\ "status" \in DOMAIN pt
             /\ pt.status = "no_data"
             /\ pt.total_attempts = Cardinality(RestaurantBucketRows(k))

\* C23 as stated: in /restaurant/{id}/chart-data, for hour and for day, every
\* bucket of the window that holds samples of the restaurant but none with a
\* popularity is reported as a no-data record.
C23_NoDataBucketReported ==
    RestaurantChartAnswered =>
        \A k \in RestaurantBuckets : WithoutPopularity(k) => NoDataReported(k)

\* C23 for the buckets the handler keeps: every bucket it keeps (every second
\* hour bucket, every day bucket, of the rows the store returned) that holds
\* no sample with a popularity is reported as a no-data record, and a bucket
\* it does not keep has no record.
C23_KeptNoDataBucketReported ==
    RestaurantChartAnswered =>
        /\ \A k \in RestaurantKeptBuckets : WithoutPopularity(k) => NoDataReported(k)
        /\ \A i \in DOMAIN resp.body.chart_data :
              resp.body.chart_data[i].timestamp \in RestaurantKeptBuckets

\* An hour bucket with two samples, none with a popularity, reported.
C23_Witness ==
    /\ RestaurantChartAnswered
    /\ resp.interval = "hour"
    /\ \E k \in RestaurantKeptBuckets :
          /\ WithoutPopularity(k)
          /\ Cardinality(RestaurantBucketRows(k)) = 2
          /\ NoDataReported(k)

\* The statistics blocks of an answered /restaurant/{id}/stats or /data/summary
\* request: one for the restaurant asked, or one per restaurant of the window.
StatsBlocks ==
    IF ~HttpAnswered \/ resp.status # 200 THEN {}
    ELSE IF resp.op = "restaurant_stats"
    THEN IF "stats" \in DOMAIN resp.body
         THEN {[rid |-> resp.restaurant_id, stats |-> resp.body.stats]} ELSE {}
    ELSE IF resp.op = "data_summary"
    THEN {[rid |-> rid, stats |-> resp.body.restaurants[rid]] :
             rid \in DOMAIN resp.body.restaurants}
    ELSE {}

\* The positions in the store of the rows of restaurant rid within the window
\* of one day that carry a value in column col; the store keeps its rows in
\* ascending timestamp order, so the greatest position is the first in
\* descending order.
PresentAt(rid, col) ==
    {i \in DOMAIN store : /\ store[i].restaurant_id = rid
                          /\ store[i].timestamp.sec >= now - SecondsOfDays(1)
                          /\ store[i][col] # NULL}

FirstPresentDescending(rid, col) ==
    IF PresentAt(rid, col) = {} THEN NULL ELSE store[MaxOf(PresentAt(rid, col))][col]

\* C24 as claimed: the latest popularity and the latest rating are the values
\* carried by the row reported as latest_data.
C24_LatestIsOfLatestData ==
    \A b \in StatsBlocks :
        /\ b.stats.current_popularity.latest = b.stats.latest_data.current_popularity
        /\ b.stats.rating.latest = b.stats.latest_data.rating

\* C24: the latest popularity (rating) of /restaurant/{id}/stats and of
\* /data/summary is the value of the first row in descending-timestamp order
\* that carries a popularity (rating), null when no row of the window carries
\* one; it is the value of the latest_data row whenever that row carries one.
C24_LatestIsFirstPresent ==
    \A b \in StatsBlocks :
        /\ b.stats.current_popularity.latest = FirstPresentDescending(b.rid, "current_popularity")
        /\ b.stats.rating.latest = FirstPresentDescending(b.rid, "rating")
        /\ b.stats.latest_data.current_popularity # NULL
              => b.stats.current_popularity.latest = b.stats.latest_data.current_popularity
        /\ b.stats.latest_data.rating # NULL
              => b.stats.rating.latest = b.stats.latest_data.rating

\* A restaurant with two rows of different present popularities in the window:
\* the summary reports the later one as latest.
C24_Witness ==
    /\ HttpAnswered
    /\ resp.op = "data_summary"
    /\ \E b \in StatsBlocks :
          /\ b.stats.data_points = 2
          /\ b.stats.current_popularity.min = 10
          /\ b.stats.current_popularity.latest = 20
          /\ b.stats.latest_data.current_popularity = 20

(***************************************************************************)
(* The two cache-backed endpoints under concurrent requests.  Both         *)
(* handlers are coroutines of one event loop (uvicorn.run, main.py:1195).  *)
(* A handler that misses the cache asks the store with the blocking        *)
(* requests.get; the only await of either handler, await                   *)
(* get_all_latest_data() at main.py:409, runs a coroutine that never       *)
(* suspends.  So time passes and the table changes while a handler waits   *)
(* for the store, but the loop starts no other handler until it returns.   *)
(***************************************************************************)
ServeIntervals == {"hour"}

ServeOps == {"live", "chart"}

TaskIds == 1..MaxInflight

\* A faulty variant: handlers that yield to the loop while they wait.
LoopShared == TRUE

\* The event loop can start a handler: no handler is in the middle of its run.
LoopIdle == \A i \in TaskIds : tasks[i] = NoCall

ServeKey(op, interval) ==
    IF op = "live" THEN get_cache_key("pizza_index_live", <<<<"interval", interval>>>>)
    ELSE get_cache_key("pizza_index_chart", <<<<"days", ToString(1)>>, <<"interval", interval>>>>)

Started == Len(SelectSeq(trace, LAMBDA e : e.kind = "get"))

InitServe ==
    /\ now = LiveNow
    /\ ticks = 0
    /\ store = <<>>
    /\ request_cache = EmptyDict
    /\ performance_stats = InitStats
    /\ puts = EmptyDict
    /\ got = NoCall
    /\ resp = NoCall
    /\ fetch = NoCall
    /\ aggregates = {}
    /\ tasks = [i \in TaskIds |-> NoCall]
    /\ trace = <<>>

\* Time passes, half a TTL at a time, whether or not a handler is waiting for
\* the store.
ServeTick ==
    /\ ticks < MaxServeTicks
    /\ now' = now + CACHE_TTL \div 2
    /\ ticks' = ticks + 1
    /\ UNCHANGED <<store, request_cache, performance_stats, puts, got, resp, fetch,
                   aggregates, tasks, trace>>

\* The collector adds a sample to restaurant_popular_times.
Ingest ==
    /\ Len(store) < MaxServeRows
    /\ \A i \in DOMAIN store : store[i].timestamp.sec <= now
    /\ store' = Append(store,
                       Row(Len(store) + 1, "extreme_pizza",
                           [text |-> "datetime", sec |-> now, frac |-> <<1, 2, 3, 4, 5, 6>>,
                            tz |-> "+00:00"], 50, NULL))
    /\ UNCHANGED <<now, ticks, request_cache, performance_stats, puts, got, resp, fetch,
                   aggregates, tasks, trace>>

\* A faulty variant: the handler goes on to the store after a hit as well.
begin_without_return(op, interval) ==
    LET key == ServeKey(op, interval)
        r   == get_cached_response(request_cache, performance_stats, key, now)
    IN  [hit   |-> r.ret # None,
         event |-> [kind |-> "get", key |-> key, at |-> now, data |-> r.ret],
         cache |-> r.cache,
         stats |-> r.stats,
         resp  |-> resp,
         task  |-> [op |-> op, interval |-> interval]]

\* A handler from its start to its return on a hit, or to its first store
\* request on a miss: main.py:400-406 and main.py:452-461.
begin(op, interval) ==
    LET key == ServeKey(op, interval)
        r   == get_cached_response(request_cache, performance_stats, key, now)
    IN  [hit   |-> r.ret # None,
         event |-> [kind |-> "get", key |-> key, at |-> now, data |-> r.ret],
         cache |-> r.cache,
         stats |-> IF r.ret # None /\ op = "chart"
                   THEN update_performance_stats(r.stats) ELSE r.stats,
         resp  |-> IF r.ret # None
                   THEN [op |-> op, interval |-> interval, status |-> 200, body |-> r.ret,
                         store_requests |-> 0]
                   ELSE resp,
         task  |-> IF r.ret # None THEN NoCall ELSE [op |-> op, interval |-> interval]]

\* The task a new handler runs as: the first one not in use.
FreeTask(i) == tasks[i] = NoCall /\ \A j \in TaskIds : j < i => tasks[j] # NoCall

\* GET /pizza-index/live arrives and the loop runs its handler.
LiveBegin ==
    /\ LoopIdle
    /\ Started < MaxRequests
    /\ \E i \in TaskIds, interval \in ServeIntervals :
        LET b == begin("live", interval) IN
        /\ FreeTask(i)
        /\ trace' = Append(trace, b.event)
        /\ request_cache' = b.cache
        /\ performance_stats' = b.stats
        /\ resp' = b.resp
        /\ tasks' = [tasks EXCEPT ![i] = b.task]
    /\ UNCHANGED <<now, ticks, store, puts, got, fetch, aggregates>>

\* GET /pizza-index/chart-data arrives and the loop runs its handler.
ChartBegin ==
    /\ LoopIdle
    /\ Started < MaxRequests
    /\ \E i \in TaskIds, interval \in ServeIntervals :
        LET b == begin("chart", interval) IN
        /\ FreeTask(i)
        /\ trace' = Append(trace, b.event)
        /\ request_cache' = b.cache
        /\ performance_stats' = b.stats
        /\ resp' = b.resp
        /\ tasks' = [tasks EXCEPT ![i] = b.task]
    /\ UNCHANGED <<now, ticks, store, puts, got, fetch, aggregates>>

\* get_pizza_index_live from the store's answers to its return, main.py:408-440.
LiveFinish ==
    \E i \in TaskIds :
        /\ tasks[i] # NoCall
        /\ tasks[i].op = "live"
        /\ \E up \in BOOLEAN :
            LET failing     == IF up THEN {} ELSE RestaurantIds
                hist_status == IF up THEN 200 ELSE 500
                a == live_on_miss(request_cache, performance_stats, store,
                                  tasks[i].interval, failing, hist_status, now)
            IN  /\ request_cache' = a.cache
                /\ performance_stats' = a.stats
                /\ resp' = [op |-> "live", interval |-> tasks[i].interval,
                            status |-> a.status, body |-> a.body,
                            store_requests |-> a.store_requests]
                /\ trace' = Append(trace, [kind |-> "put",
                                           key |-> ServeKey("live", tasks[i].interval),
                                           at |-> now, data |-> a.body,
                                           store_failed |-> a.store_failed])
        /\ tasks' = [tasks EXCEPT ![i] = NoCall]
        /\ UNCHANGED <<now, ticks, store, puts, got, fetch, aggregates>>

\* get_pizza_index_chart_data from the store's answers to its return,
\* main.py:462-595.
ChartFinish ==
    \E i \in TaskIds :
        /\ tasks[i] # NoCall
        /\ tasks[i].op = "chart"
        /\ \E fail_at \in 0..1 :
            LET a == chart_on_miss(request_cache, performance_stats, store, 1,
                                   tasks[i].interval, fail_at, now)
            IN  /\ request_cache' = a.cache
                /\ performance_stats' = a.stats
                /\ resp' = [op |-> "chart", interval |-> tasks[i].interval,
                            status |-> a.status, body |-> a.body,
                            store_requests |-> a.store_requests]
                /\ trace' = IF a.status = 200
                            THEN Append(trace, [kind |-> "put",
                                                key |-> ServeKey("chart", tasks[i].interval),
                                                at |-> now, data |-> a.body,
                                                store_failed |-> a.store_failed])
                            ELSE trace
        /\ tasks' = [tasks EXCEPT ![i] = NoCall]
        /\ UNCHANGED <<now, ticks, store, puts, got, fetch, aggregates>>

NextServe ==
    \/ ServeTick
    \/ Ingest
    \/ LiveBegin
    \/ ChartBegin
    \/ LiveFinish
    \/ ChartFinish

SpecServe == InitServe /\ [][NextServe]_vars

\* C2: once a handler has written the cache entry of a key, every request of
\* that key whose cache lookup comes after the write and less than CACHE_TTL
\* after it gets the payload of that write, however the requests overlap.
C2_SamePayloadWithinWindow ==
    \A i \in DOMAIN trace : \A j \in DOMAIN trace :
        (/\ i < j
         /\ trace[i].kind = "put"
         /\ trace[j].kind = "get"
         /\ trace[j].key = trace[i].key
         /\ trace[j].at - trace[i].at < CACHE_TTL)
        => trace[j].data = trace[i].data

\* Two requests of one key, looking up at different instants within the window
\* of one write, after the table changed: both get the written payload.
C2_Witness ==
    \E i \in DOMAIN trace : \E j \in DOMAIN trace : \E k \in DOMAIN trace :
        /\ i < j /\ j < k
        /\ trace[i].kind = "put" /\ trace[j].kind = "get" /\ trace[k].kind = "get"
        /\ trace[j].key = trace[i].key /\ trace[k].key = trace[i].key
        /\ trace[j].at < trace[k].at
        /\ trace[k].at - trace[i].at < CACHE_TTL
        /\ trace[j].data = trace[i].data /\ trace[k].data = trace[i].data
        /\ Len(store) = MaxServeRows

\* The write a lookup's hit was served from: the last write of its key before it.
ServedFrom(i, j) ==
    /\ i < j
    /\ trace[i].kind = "put"
    /\ trace[j].kind = "get"
    /\ trace[j].key = trace[i].key
    /\ trace[j].data # None
    /\ \A k \in DOMAIN trace :
          (i < k /\ k < j /\ trace[k].kind = "put") => trace[k].key # trace[i].key

\* C11: a store error met while one request is served stays with that request:
\* no later request is answered, from the response cache, with a response
\* that was built while a store request was failing.
C11_NoFailureServedLater ==
    \A i \in DOMAIN trace : \A j \in DOMAIN trace :
        ServedFrom(i, j) => ~trace[i].store_failed

\* What a step of the service did: a cache lookup (the event it appended to
\* the trace), the return of a handler that had missed, a write of the entry
\* of key k.
LookedUp == Len(trace') = Len(trace) + 1 /\ trace'[Len(trace')].kind = "get"

Returned(i) == tasks[i] # NoCall /\ tasks'[i] = NoCall

Wrote(k) ==
    /\ k \in DOMAIN request_cache'
    /\ k \notin DOMAIN request_cache \/ request_cache'[k] # request_cache[k]

MissedBefore(k) == \E j \in DOMAIN trace : /\ trace[j].kind = "get"
                                            /\ trace[j].key = k
                                            /\ trace[j].data = None

\* On a hit the handler answers with the payload of the entry, asks the store
\* nothing and leaves the cache as it was.
HitShortCircuits ==
    (LookedUp /\ trace'[Len(trace')].data # None) =>
        LET k == trace'[Len(trace')].key IN
        /\ k \in DOMAIN request_cache
        /\ resp'.status = 200
        /\ resp'.body = request_cache[k].data
        /\ resp'.store_requests = 0
        /\ tasks' = tasks
        /\ request_cache' = request_cache

\* On a miss the handler goes on to the store: nothing is answered and no
\* entry of the key is in the cache until it returns.
MissGoesToStore ==
    (LookedUp /\ trace'[Len(trace')].data = None) =>
        /\ resp' = resp
        /\ trace'[Len(trace')].key \notin DOMAIN request_cache'
        /\ \E i \in TaskIds : tasks[i] = NoCall /\ tasks'[i] # NoCall

\* The store is asked only by a handler whose lookup missed, and its 200
\* answer is the payload it wrote to the cache on returning.
StoreAfterLookup ==
    \A i \in TaskIds :
        Returned(i) =>
            LET k == ServeKey(tasks[i].op, tasks[i].interval) IN
            /\ MissedBefore(k)
            /\ resp'.store_requests >= 1
            /\ resp'.status = 200 =>
                  request_cache'[k] = [data |-> resp'.body, timestamp |-> now]

\* An entry is written only by a returning handler, with the payload answered.
WriteIsOfAnswer ==
    \A k \in DOMAIN request_cache' :
        Wrote(k) =>
            /\ \E i \in TaskIds : Returned(i) /\ k = ServeKey(tasks[i].op, tasks[i].interval)
            /\ resp'.status = 200
            /\ request_cache'[k].data = resp'.body

\* C28: in /pizza-index/live and /pizza-index/chart-data the cache lookup
\* comes before any store request; on a hit the handler answers exactly the
\* cached payload and asks the store nothing; on a miss it reads the store
\* and writes the cache entry only on returning, with the payload it answers.
C28_CacheShortCircuit ==
    [][HitShortCircuits /\ MissGoesToStore /\ StoreAfterLookup /\ WriteIsOfAnswer]_vars

\* A request answered from the cache after the table changed: the entry was
\* written by an earlier request over the empty table, a sample arrived, and
\* the last lookup of the key came back with the payload and no store request.
C28_Witness ==
    /\ Len(trace) >= 3
    /\ Len(store) = 1
    /\ LET e == trace[Len(trace)] IN
       /\ e.kind = "get"
       /\ e.data # None
       /\ resp.body = e.data
       /\ resp.store_requests = 0
       /\ \E i \in DOMAIN trace :
             /\ trace[i].kind = "put" /\ trace[i].key = e.key /\ trace[i].data = e.data
             /\ store[1].timestamp.sec >= trace[i].at
    /\ LoopIdle

\* The entries of the keys other than k.
OtherEntries(cache, k) == [x \in DOMAIN cache \ {k} |-> cache[x]]

\* The lookup of a /pizza-index/chart-data request that missed: the entries
\* of the other keys and total_requests are as they were, and no entry of the
\* request's key is left.
ChartMissFrame ==
    (LookedUp /\ trace'[Len(trace')].data = None
              /\ trace'[Len(trace')].key = ServeKey("chart", "hour")) =>
        LET k == trace'[Len(trace')].key IN
        /\ OtherEntries(request_cache', k) = OtherEntries(request_cache, k)
        /\ k \notin DOMAIN request_cache'
        /\ performance_stats'.total_requests = performance_stats.total_requests

\* The return of a /pizza-index/chart-data request with an error: the cache
\* and the counters are as the lookup left them.
ChartErrorFrame ==
    \A i \in TaskIds :
        (Returned(i) /\ tasks[i].op = "chart" /\ resp'.status # 200) =>
            /\ request_cache' = request_cache
            /\ ServeKey("chart", tasks[i].interval) \notin DOMAIN request_cache'
            /\ performance_stats' = performance_stats
            /\ Len(trace') = Len(trace)

\* C29: a /pizza-index/chart-data request that ends with an error writes
\* nothing to the response cache and does not update total_requests: after
\* it the cache holds no entry of the request's key, and the entries of all
\* other keys are as they were before it.
C29_ErrorWritesNothing == [][ChartMissFrame /\ ChartErrorFrame]_vars

\* A chart request answered 500 whose key had an entry, written by an earlier
\* request and expired since: the entry is gone, the entry of the live key
\* is in the cache, and total_requests counts the earlier request alone.
C29_Witness ==
    /\ LoopIdle
    /\ resp # NoCall
    /\ resp.op = "chart"
    /\ resp.status = 500
    /\ \E i \in DOMAIN trace : trace[i].kind = "put" /\ trace[i].key = ServeKey("chart", "hour")
    /\ ServeKey("chart", "hour") \notin DOMAIN request_cache
    /\ ServeKey("live", "hour") \in DOMAIN request_cache
    /\ performance_stats.total_requests = 1

(***************************************************************************)
(* The chart series on its own: one request to /pizza-index/chart-data for *)
(* the last day, over tables whose rows lie in up to eight minute buckets  *)
(* of three hours and two days, one instant of them outside the window.    *)
(***************************************************************************)
\* Day 0 13:53:20 (outside the window of LiveNow), day 0 16:40:00, day 1
\* 13:20:00, and the minutes of day 1 from 14:20:00 to 14:25:00.
ChartSecs == {50000, 60000, 134400, 138000, 138060, 138120, 138180, 138240, 138300}

\* The table that holds one sample at each instant of S, the sample at
\* instant x with popularity pops[x], in the order of the timestamps.
ChartTable(S, pops) ==
    LET secs == SortedKeys(S) IN
    MkStore([i \in 1..Len(secs) |->
                [rid |-> "extreme_pizza",
                 ts  |-> [text |-> "datetime", sec |-> secs[i], frac |-> <<1, 2, 3, 4, 5, 6>>,
                          tz |-> "+00:00"],
                 pop |-> pops[secs[i]], rating |-> NULL]])

ChartTables ==
    UNION {{ChartTable(S, pops) : pops \in [S -> {NULL, 10}]} :
              S \in {T \in SUBSET ChartSecs : Cardinality(T) <= MaxChartRows}}

InitChart ==
    /\ now = LiveNow
    /\ ticks = 0
    /\ store \in ChartTables
    /\ request_cache = EmptyDict
    /\ performance_stats = InitStats
    /\ puts = EmptyDict
    /\ got = NoCall
    /\ resp = NoCall
    /\ fetch = NoCall
    /\ aggregates = {}
    /\ tasks = <<>>
    /\ trace = <<>>

\* GET /pizza-index/chart-data?days=1&interval=...
ChartRequest ==
    /\ resp = NoCall
    /\ \E interval \in IntervalParams, fail_at \in 0..1 :
        LET a == get_pizza_index_chart_data(request_cache, performance_stats, store, 1,
                                            interval, fail_at, now)
        IN  /\ resp' = Served("chart", "", interval, {}, a)
            /\ request_cache' = a.cache
            /\ performance_stats' = a.stats
    /\ UNCHANGED <<tasks, trace, now, ticks, store, puts, got, fetch, aggregates>>

NextChart == ChartRequest

SpecChart == InitChart /\ [][NextChart]_vars

ChartAnswered ==
    /\ resp # NoCall
    /\ resp.op = "chart"
    /\ resp.status = 200
    /\ resp.interval \in Intervals

\* The rows of the requested window, the buckets they fall in, and the
\* buckets that hold a sample with a popularity.
WindowRows == {i \in DOMAIN store : store[i].timestamp.sec >= now - 86400}

WindowBuckets(g) ==
    {store[i].timestamp.sec - (store[i].timestamp.sec % Unit(g)) : i \in WindowRows}

ValidBuckets(g) ==
    {store[i].timestamp.sec - (store[i].timestamp.sec % Unit(g)) :
        i \in {j \in WindowRows : store[j].current_popularity # NULL}}

PointTimestamps == {resp.body.chart_data[i].timestamp : i \in DOMAIN resp.body.chart_data}

\* C12 as claimed: the chart series has exactly one point for every bucket of
\* the window that holds a sample with a popularity.
C12_OnePointPerValidBucket ==
    ChartAnswered =>
        /\ PointTimestamps = ValidBuckets(resp.interval)
        /\ Len(resp.body.chart_data) = Cardinality(ValidBuckets(resp.interval))

\* The buckets the handler keeps: of the window's buckets in ascending order,
\* every fifth for minute, every second for hour, every one for day,
\* starting with the first.
KeptBuckets(g) ==
    LET n == CASE g = "minute" -> 5 [] g = "hour" -> 2 [] g = "day" -> 1
    IN  {k \in WindowBuckets(g) :
            Cardinality({x \in WindowBuckets(g) : x < k}) % n = 0}

\* C12 as amended: the chart series is a sample of the bucketed series.  Of
\* the buckets of the window that hold any sample, taken in ascending order,
\* the handler keeps the 1st, 6th, 11th, ... for minute, the 1st, 3rd, 5th,
\* ... for hour and all of them for day; the series has exactly one point for
\* every kept bucket that holds a sample with a popularity, in ascending
\* order of bucket start, and no other point.
C12_OnePointPerKeptValidBucket ==
    ChartAnswered =>
        /\ PointTimestamps = KeptBuckets(resp.interval) \cap ValidBuckets(resp.interval)
        /\ Len(resp.body.chart_data) = Cardinality(PointTimestamps)
        /\ \A i \in DOMAIN resp.body.chart_data : \A j \in DOMAIN resp.body.chart_data :
              i < j => resp.body.chart_data[i].timestamp < resp.body.chart_data[j].timestamp

\* A minute series of six buckets with samples: the first and the sixth are
\* reported, the four between them are not.
C12_Witness ==
    /\ ChartAnswered
    /\ resp.interval = "minute"
    /\ Cardinality(ValidBuckets("minute")) = 6
    /\ Len(resp.body.chart_data) = 2

(***************************************************************************)
(* Aggregation on its own: a table of up to MaxBucketItems samples taken   *)
(* 20 s apart from 14:00:00 on (one hour bucket, two minute buckets), with *)
(* every combination of the popularities below, aggregated by the chart    *)
(* handler, by the batch job and by the live index.                        *)
(***************************************************************************)
AggPops == {NULL, 10, 30, 50, 100}

\* Day 1 14:00:00 + 20 s * (i - 1)
AggSec(i) == 136800 + 20 * (i - 1)

AggTable(pops) ==
    MkStore([i \in 1..Len(pops) |->
                [rid |-> "extreme_pizza",
                 ts  |-> [text |-> "datetime", sec |-> AggSec(i), frac |-> <<1, 2, 3, 4, 5, 6>>,
                          tz |-> "+00:00"],
                 pop |-> pops[i], rating |-> NULL]])

InitAgg ==
    /\ now = LiveNow
    /\ ticks = 0
    /\ store \in {AggTable(pops) : pops \in SeqsUpTo(AggPops, MaxBucketItems)}
    /\ request_cache = EmptyDict
    /\ performance_stats = InitStats
    /\ puts = EmptyDict
    /\ got = NoCall
    /\ resp = NoCall
    /\ fetch = NoCall
    /\ aggregates = {}
    /\ tasks = <<>>
    /\ trace = <<>>

\* GET /pizza-index/chart-data?days=1&interval=... , the store answering 200.
AggChart ==
    /\ resp = NoCall
    /\ \E interval \in Intervals :
        LET a == get_pizza_index_chart_data(request_cache, performance_stats, store, 1,
                                            interval, 0, now)
        IN  /\ resp' = Served("chart", "", interval, {}, a)
            /\ request_cache' = a.cache
            /\ performance_stats' = a.stats
    /\ UNCHANGED <<tasks, trace, now, ticks, store, puts, got, fetch, aggregates>>

\* GET /pizza-index/live?interval=... , the store answering 200.
AggLive ==
    /\ resp = NoCall
    /\ aggregates = {}
    /\ \E interval \in Intervals :
        LET a == get_pizza_index_live(request_cache, performance_stats, store, interval,
                                      {}, 200, now)
        IN  /\ resp' = Served("live", "", interval, {}, a)
            /\ request_cache' = a.cache
            /\ performance_stats' = a.stats
    /\ UNCHANGED <<tasks, trace, now, ticks, store, puts, got, fetch, aggregates>>

\* python backfill.py, every request answered 200: backfill.py:89-93.
AggBackfill ==
    /\ aggregates = {}
    /\ LET m == aggregate_and_upsert(store, "minute", aggregates,
                                     bucket_starts(store, "minute")).table
           h == aggregate_and_upsert(store, "hour", m, bucket_starts(store, "hour")).table
       IN  aggregates' = aggregate_and_upsert(store, "day", h, bucket_starts(store, "day")).table
    /\ UNCHANGED <<tasks, trace, now, ticks, store, request_cache, performance_stats, puts,
                   got, resp, fetch>>

NextAgg ==
    \/ AggChart
    \/ AggLive
    \/ AggBackfill

SpecAgg == InitAgg /\ [][NextAgg]_vars

\* The samples of the table in bucket k of granularity g, all and valid, and
\* the sum of the valid ones' popularities.
BucketRows(g, k) ==
    {i \in DOMAIN store : store[i].timestamp.sec - (store[i].timestamp.sec % Unit(g)) = k}

BucketValid(g, k) == {i \in BucketRows(g, k) : store[i].current_popularity # NULL}

BucketTotal(g, k) ==
    SumOver(BucketValid(g, k), [i \in BucketValid(g, k) |-> store[i].current_popularity])

\* The aggregates reported: the points of a chart answer and the rows the
\* batch job upserted, each with the granularity it was computed at.
Reported ==
    (IF resp # NoCall /\ resp.op = "chart" /\ resp.status = 200
     THEN {[g |-> resp.interval, rec |-> resp.body.chart_data[i]] :
              i \in DOMAIN resp.body.chart_data}
     ELSE {})
    \cup {[g |-> r.interval, rec |-> r] : r \in aggregates}

Abs(x) == IF x < 0 THEN 0 - x ELSE x

\* C13 as claimed: data_points is the number of samples of the bucket with a
\* popularity, avg_popularity is the arithmetic mean of those popularities (0
\* when there is none) and the index value is 100 + 0.8 * avg_popularity.
\* Reported decimals are held in tenths.
C13_MeanAndIndexExact ==
    \A r \in Reported :
        LET n == Cardinality(BucketValid(r.g, r.rec.timestamp))
            total == BucketTotal(r.g, r.rec.timestamp)
        IN  /\ r.rec.data_points = n
            /\ r.rec.avg_popularity * n = 10 * total
            /\ 10 * r.rec.value = 10000 + 8 * r.rec.avg_popularity

\* C13 as amended: data_points is the number of samples of the bucket with a
\* popularity; avg_popularity is their arithmetic mean rounded to one decimal,
\* and the index value is 100 + 0.8 * the unrounded mean, rounded to one
\* decimal (so it can differ by 0.1 from 100 + 0.8 * the reported average).
\* A bucket with no such sample gets avg_popularity 0 and value 100.0 from the
\* batch job and no point from /pizza-index/chart-data.
C13_MeanAndIndexRounded ==
    \A r \in Reported :
        LET n == Cardinality(BucketValid(r.g, r.rec.timestamp))
            total == BucketTotal(r.g, r.rec.timestamp)
        IN  /\ r.rec.data_points = n
            /\ 2 * Abs(r.rec.avg_popularity * n - 10 * total) <= n
            /\ 2 * Abs(r.rec.value * n - (1000 * n + 8 * total)) <= n
            /\ n = 0 => (r.rec.avg_popularity = 0 /\ r.rec.value = 1000
                         /\ "interval" \in DOMAIN r.rec)

\* The hour bucket with popularities 10, null, 30, 50, null: count 3, average
\* 30.0, index 124.0, from the chart handler and from the batch job.
C13_Witness ==
    /\ [i \in DOMAIN store |-> store[i].current_popularity] = <<10, NULL, 30, 50, NULL>>
    /\ resp # NoCall /\ resp.op = "chart" /\ resp.interval = "hour"
    /\ \E r \in Reported :
          /\ r.g = "hour" /\ "interval" \notin DOMAIN r.rec
          /\ r.rec.data_points = 3 /\ r.rec.avg_popularity = 300 /\ r.rec.value = 1240
    /\ \E r \in Reported :
          /\ r.g = "hour" /\ "interval" \in DOMAIN r.rec
          /\ r.rec.data_points = 3 /\ r.rec.avg_popularity = 300 /\ r.rec.value = 1240

(***************************************************************************)
(* The change of the live index, checked under SpecLive.                   *)
(***************************************************************************)
\* The rows of the table in the bucket before the one that holds the request
\* instant, and those of them with a popularity.
CurrentStart == now - (now % Unit(resp.interval))

PreviousBucketRows ==
    {i \in DOMAIN store :
        /\ CurrentStart - Unit(resp.interval) <= store[i].timestamp.sec
        /\ store[i].timestamp.sec < CurrentStart}

PreviousBucketValid == {i \in PreviousBucketRows : store[i].current_popularity # NULL}

\* C14: when the bucket before the current one holds no sample with a
\* popularity (or no sample at all), /pizza-index/live answers 200 with
\* change 0.0 and changePercent 0.0.
C14_NoPreviousSampleNoChange ==
    (LiveAnswered /\ PreviousBucketValid = {}) =>
        /\ resp.status = 200
        /\ resp.body.change = 0
        /\ resp.body.changePercent = 0

\* The previous hour holds a sample without popularity and the current index
\* rests on a sample of the current hour; every store request is answered 200.
C14_Witness ==
    /\ LiveAnswered
    /\ resp.interval = "hour"
    /\ resp.failing = {} /\ resp.hist_status = 200
    /\ PreviousBucketRows # {} /\ PreviousBucketValid = {}
    /\ resp.period_data # <<>>
    /\ resp.body.active_restaurants = 1
    /\ resp.body.value = 1400
    /\ resp.body.change = 0

PreviousBucketTotal ==
    SumOver(PreviousBucketValid, [i \in PreviousBucketValid |-> store[i].current_popularity])

\* C15: when the bucket before the current one holds a sample with a
\* popularity and the store answers every request, change is
\* round(current_index - previous_index, 1) and changePercent is
\* round(change / previous_index * 100, 2), previous_index being the index of
\* that bucket: 100 + 0.8 * the mean popularity of its samples.  With T, A the
\* sum and number of the current popularities and P, B those of the previous
\* bucket, in tenths and hundredths: change = round(8 * (T*B - P*A) / (A*B))
\* and changePercent = round(10000 * change * B / (1000 * B + 8 * P)).
C15_ChangeAgainstPreviousBucket ==
    (/\ LiveAnswered
     /\ resp.failing = {}
     /\ resp.hist_status = 200
     /\ PreviousBucketValid # {}) =>
        LET T == resp.body.total_popularity
            A == resp.body.active_restaurants
            P == PreviousBucketTotal
            B == Cardinality(PreviousBucketValid)
            change == IF A = 0 THEN RoundDivSigned(0 - 8 * P, B)
                      ELSE RoundDivSigned(8 * (T * B - P * A), A * B)
        IN  /\ resp.body.change = change
            /\ resp.body.changePercent = RoundDivSigned(10000 * change * B, 1000 * B + 8 * P)

(***************************************************************************)
(* The index map, checked on the rounding of the code and under SpecAgg.   *)
(***************************************************************************)
\* The largest number of samples of a mean compared by IndexMonotone.
MaxMeanCount == 3

\* The sums of count popularities between 0 and 100.
Totals(count) == 0..(100 * count)

\* The map does not decrease: a mean t1/c1 that is at most t2/c2 gives an
\* index that is at most the other's.
IndexMonotone ==
    \A c1 \in 1..MaxMeanCount : \A c2 \in 1..MaxMeanCount : \A t1 \in Totals(c1) : \A t2 \in Totals(c2) :
        t1 * c2 <= t2 * c1 => IndexTenths(t1, c1) <= IndexTenths(t2, c2)

IndexEnds ==
    \A c \in 1..MaxBucketItems : IndexTenths(0, c) = 1000 /\ IndexTenths(100 * c, c) = 1800

\* C16: the index does not decrease when the mean popularity grows, is 100.0
\* at mean 0 and 180.0 at mean 100; with every popularity in 0..100 every
\* index value reported by /pizza-index/live, by /pizza-index/chart-data and
\* by the batch job lies in [100.0, 180.0].
C16_IndexMonotoneInRange ==
    /\ IndexMonotone
    /\ IndexEnds
    /\ \A r \in Reported : 1000 <= r.rec.value /\ r.rec.value <= 1800
    /\ (resp # NoCall /\ resp.op = "live") =>
          (1000 <= resp.body.value /\ resp.body.value <= 1800)
    /\ \A r1 \in Reported : \A r2 \in Reported :
          (/\ r1.rec.data_points > 0
           /\ r2.rec.data_points > 0
           /\ BucketTotal(r1.g, r1.rec.timestamp) * r2.rec.data_points
                 <= BucketTotal(r2.g, r2.rec.timestamp) * r1.rec.data_points)
          => r1.rec.value <= r2.rec.value

\* Both ends of the range in one run: the live index at 180.0 on a latest
\* popularity of 100, a minute bucket of the batch job at 180.0 and one with
\* no popularity at 100.0.
C16_Witness ==
    /\ resp # NoCall /\ resp.op = "live" /\ resp.body.value = 1800
    /\ \E r \in Reported : r.g = "minute" /\ r.rec.value = 1800 /\ r.rec.data_points = 2
    /\ \E r \in Reported : r.g = "minute" /\ r.rec.value = 1000 /\ r.rec.data_points = 0

(***************************************************************************)
(* get_cache_key on its own: one endpoint and one set of keyword           *)
(* arguments, passed in any order, any number of times.                    *)
(***************************************************************************)
MaxKeyCalls == 2

KeyEndpoints == {"pizza_index_live", "pizza_index_chart"}

\* str() of the values a parameter takes.
ParamValues(k) ==
    CASE k = "days"     -> {ToString(1), ToString(30)}
      [] k = "hours"    -> {ToString(24)}
      [] k = "interval" -> {"hour", "day"}

KeyNames == {"days", "hours", "interval"}

\* The orders of distinct keyword names.
NameLists ==
    {ns \in SeqsUpTo(KeyNames, Cardinality(KeyNames)) :
        \A i \in 1..Len(ns) : \A j \in 1..Len(ns) : i # j => ns[i] # ns[j]}

\* The keyword arguments of a call, in the order they are passed.
KeyParams ==
    UNION {{[i \in 1..Len(ns) |-> <<ns[i], v[i]>>] :
               v \in {w \in [1..Len(ns) -> UNION {ParamValues(k) : k \in KeyNames}] :
                         \A i \in 1..Len(ns) : w[i] \in ParamValues(ns[i])}} :
           ns \in NameLists}

InitKey ==
    /\ now = 0
    /\ ticks = 0
    /\ store = <<>>
    /\ request_cache = EmptyDict
    /\ performance_stats = InitStats
    /\ puts = EmptyDict
    /\ got \in {[endpoint |-> e, params |-> ps] : e \in KeyEndpoints, ps \in KeyParams}
    /\ resp = NoCall
    /\ fetch = NoCall
    /\ aggregates = {}
    /\ tasks = <<>>
    /\ trace = <<>>

\* The caller writes two neighbouring keyword arguments in the other order.
KeyReorder ==
    \E i \in 1..(Len(got.params) - 1) :
        /\ got' = [got EXCEPT !.params = [j \in 1..Len(got.params) |->
                                             IF j = i THEN got.params[i + 1]
                                             ELSE IF j = i + 1 THEN got.params[i]
                                             ELSE got.params[j]]]
        /\ UNCHANGED <<now, ticks, store, request_cache, performance_stats, puts, resp, fetch,
                       aggregates, tasks, trace>>

KeyCall ==
    /\ Len(trace) < MaxKeyCalls
    /\ trace' = Append(trace, [endpoint |-> got.endpoint, params |-> got.params,
                               key |-> get_cache_key(got.endpoint, got.params)])
    /\ UNCHANGED <<now, ticks, store, request_cache, performance_stats, puts, got, resp, fetch,
                   aggregates, tasks>>

NextKey == KeyReorder \/ KeyCall

SpecKey == InitKey /\ [][NextKey]_vars

\* C17: get_cache_key gives the same key for the same endpoint and the same
\* parameters whatever order the parameters are passed in, and the same key
\* every time for the same call.
C17_KeyIgnoresOrder ==
    \A i \in DOMAIN trace : \A j \in DOMAIN trace : trace[i].key = trace[j].key

\* Two calls that pass three parameters in different orders.
C17_Witness ==
    \E i \in DOMAIN trace : \E j \in DOMAIN trace :
        /\ Len(trace[i].params) = 3
        /\ trace[i].params # trace[j].params
        /\ trace[i].params[1][1] = trace[j].params[3][1]

(***************************************************************************)
(* parse_timestamp_robust on its own: calls on strings of every shape      *)
(* while the clock advances.                                               *)
(***************************************************************************)
MaxParseCalls == 2

MaxParseTicks == 1

\* 10:00:00 on day 1, and the start of that day.
ParseSec == 122400

ParseDay == 86400

ParseNow == 200000

ParseFracs ==
    {<<>>, <<1>>, <<1, 2, 3>>, <<1, 2, 3, 4>>, <<1, 2, 3, 4, 5>>, <<1, 2, 3, 4, 5, 0>>,
     <<1, 2, 3, 4, 5, 6>>, <<1, 2, 3, 4, 5, 6, 7>>}

ParseSuffixes == {"", "Z", "+00:00", "+05:30", "-05:00"}

ParseInputs ==
    {[text |-> "datetime", sec |-> ParseSec, frac |-> f, tz |-> z] :
        f \in ParseFracs, z \in ParseSuffixes}
    \cup {[text |-> "date", sec |-> ParseDay, frac |-> <<>>, tz |-> z] : z \in ParseSuffixes}
    \cup {[text |-> "other", sec |-> 0, frac |-> <<>>, tz |-> z] : z \in ParseSuffixes}

InitParse ==
    /\ now = ParseNow
    /\ ticks = 0
    /\ store = <<>>
    /\ request_cache = EmptyDict
    /\ performance_stats = InitStats
    /\ puts = EmptyDict
    /\ got = NoCall
    /\ resp = NoCall
    /\ fetch = NoCall
    /\ aggregates = {}
    /\ tasks = <<>>
    /\ trace = <<>>

ParseTick ==
    /\ ticks < MaxParseTicks
    /\ now' = now + 1
    /\ ticks' = ticks + 1
    /\ UNCHANGED <<store, request_cache, performance_stats, puts, got, resp, fetch, aggregates,
                   tasks, trace>>

ParseCall ==
    \E ts \in ParseInputs :
        /\ Len(trace) < MaxParseCalls
        /\ trace' = Append(trace, [ts |-> ts, t |-> now, ret |-> parse_timestamp_robust(ts, now)])
        /\ UNCHANGED <<now, ticks, store, request_cache, performance_stats, puts, got, resp,
                       fetch, aggregates, tasks>>

NextParse == ParseTick \/ ParseCall

SpecParse == InitParse /\ [][NextParse]_vars

\* C19: parse_timestamp_robust never raises: for every input string it
\* returns a timezone-aware instant, and for a string none of its strategies
\* parses it returns the current instant after logging a warning.
C19_AlwaysAwareInstant ==
    \A i \in DOMAIN trace :
        /\ trace[i].ret.aware
        /\ trace[i].ts.text = "other" =>
              (trace[i].ret.sec = trace[i].t /\ trace[i].ret.warned)

UtcSuffixes == {"", "Z", "+00:00"}

\* Two calls on the same date-time text with suffixes that stand for UTC.
SameTextUtc(i, j) ==
    /\ trace[i].ts.text = "datetime"
    /\ trace[j].ts.text = "datetime"
    /\ trace[i].ts.sec = trace[j].ts.sec
    /\ trace[i].ts.tz \in UtcSuffixes
    /\ trace[j].ts.tz \in UtcSuffixes

SameInstant(i, j) ==
    /\ trace[i].ret.sec = trace[j].ret.sec
    /\ trace[i].ret.micro = trace[j].ret.micro

\* C20: for the same date-time text, the suffix Z, the offset +00:00 and no
\* timezone give the same UTC instant; a fraction of 5 digits gives the
\* instant of the fraction padded with one zero, a fraction of more than 6
\* digits the instant of its first 6 digits, a fraction of 6 digits that
\* many microseconds, and no fraction the whole second.
C20_ShapesDenoteSameInstant ==
    /\ \A i \in DOMAIN trace : \A j \in DOMAIN trace :
          SameTextUtc(i, j) =>
             /\ trace[i].ts.frac = trace[j].ts.frac => SameInstant(i, j)
             /\ (Len(trace[i].ts.frac) = 5 /\ trace[j].ts.frac = Append(trace[i].ts.frac, 0))
                   => SameInstant(i, j)
             /\ (Len(trace[i].ts.frac) > 6 /\ trace[j].ts.frac = SubSeq(trace[i].ts.frac, 1, 6))
                   => SameInstant(i, j)
    /\ \A i \in DOMAIN trace :
          (trace[i].ts.text = "datetime" /\ trace[i].ts.tz \in UtcSuffixes) =>
             /\ trace[i].ret.aware
             /\ Len(trace[i].ts.frac) \in {0, 6} =>
                   /\ trace[i].ret.sec = trace[i].ts.sec
                   /\ trace[i].ret.micro = DigitsValue(trace[i].ts.frac)

\* The fraction .12345 with Z and the fraction .123450 with +00:00, both
\* parsed to 123450 microseconds after the second.
C20_Witness ==
    \E i \in DOMAIN trace : \E j \in DOMAIN trace :
        /\ SameTextUtc(i, j)
        /\ trace[i].ts.frac = <<1, 2, 3, 4, 5>> /\ trace[i].ts.tz = "Z"
        /\ trace[j].ts.frac = <<1, 2, 3, 4, 5, 0>> /\ trace[j].ts.tz = "+00:00"
        /\ trace[i].ret.sec = ParseSec /\ trace[i].ret.micro = 123450
        /\ SameInstant(i, j)

(***************************************************************************)
(* The batch job's persistence: runs of aggregate_and_upsert over the raw  *)
(* table while rows are ingested between the runs, each POST accepted or   *)
(* refused by the store.                                                   *)
(***************************************************************************)
MaxUpsertRows == 3

MaxRuns == 3

\* Day 1 14:00:00 + 30 s * (i - 1)
UpsertSec(i) == 136800 + 30 * (i - 1)

UpsertPops == {NULL, 10}

UpsertIntervals == {"minute", "hour"}

InitUpsert ==
    /\ now = LiveNow
    /\ ticks = 0
    /\ store = <<>>
    /\ request_cache = EmptyDict
    /\ performance_stats = InitStats
    /\ puts = EmptyDict
    /\ got = NoCall
    /\ resp = NoCall
    /\ fetch = NoCall
    /\ aggregates = {}
    /\ tasks = <<>>
    /\ trace = <<>>

\* The producer appends a sample later than every stored one.
UpsertIngest ==
    \E pop \in UpsertPops :
        /\ Len(store) < MaxUpsertRows
        /\ store' = Append(store,
                       Row(Len(store) + 1, "extreme_pizza",
                           [text |-> "datetime", sec |-> UpsertSec(Len(store) + 1),
                            frac |-> <<1, 2, 3, 4, 5, 6>>, tz |-> "+00:00"],
                           pop, NULL))
        /\ UNCHANGED <<now, ticks, request_cache, performance_stats, puts, got, resp, fetch,
                       aggregates, tasks, trace>>

\* One call aggregate_and_upsert(all_data, interval) over the table as it is;
\* resp is the record of this call and got the record of the call before it.
UpsertRun ==
    \E interval \in UpsertIntervals :
        \E accepted \in SUBSET bucket_starts(store, interval) :
            LET r == aggregate_and_upsert(store, interval, aggregates, accepted) IN
            /\ ticks < MaxRuns
            /\ ticks' = ticks + 1
            /\ aggregates' = r.table
            /\ got' = resp
            /\ resp' = [op |-> "aggregate_and_upsert", interval |-> interval, data |-> store,
                        accepted |-> accepted, posts |-> r.posts,
                        before |-> aggregates, after |-> r.table]
            /\ UNCHANGED <<now, store, request_cache, performance_stats, puts, fetch, tasks,
                           trace>>

NextUpsert == UpsertIngest \/ UpsertRun

SpecUpsert == InitUpsert /\ [][NextUpsert]_vars

\* The bucket starts of the rows of a run.
RunBuckets(run) ==
    {run.data[i].timestamp.sec - (run.data[i].timestamp.sec % Unit(run.interval)) :
        i \in DOMAIN run.data}

\* One POST per bucket of the run, each for the run's interval.
OnePostPerBucket(run) ==
    /\ {run.posts[i].timestamp : i \in DOMAIN run.posts} = RunBuckets(run)
    /\ Len(run.posts) = Cardinality(RunBuckets(run))
    /\ \A i \in DOMAIN run.posts : run.posts[i].interval = run.interval

OneRowPerKey(table) ==
    \A r1 \in table : \A r2 \in table :
        (r1.interval = r2.interval /\ r1.timestamp = r2.timestamp) => r1 = r2

MaxOrderRows == 3

\* Day 0 16:40:00, inside the window of LiveNow, and one instant in each of
\* the last three hours before LiveNow.
OrderSecs == {60000, LiveNow - 8000, LiveNow - 4000, LiveNow - 10}

OrderCols ==
    {[rid |-> "extreme_pizza",
      ts  |-> [text |-> "datetime", sec |-> s, frac |-> <<1, 2, 3, 4, 5, 6>>, tz |-> "+00:00"],
      pop |-> p, rating |-> NULL] : s \in OrderSecs, p \in {NULL, 10}}

InitOrder ==
    /\ now = LiveNow
    /\ ticks = 0
    /\ store \in {MkStore(c) : c \in SeqsUpTo(OrderCols, MaxOrderRows)}
    /\ request_cache = EmptyDict
    /\ performance_stats = InitStats
    /\ puts = EmptyDict
    /\ got = NoCall
    /\ resp = NoCall
    /\ fetch = NoCall
    /\ aggregates = {}
    /\ tasks = <<>>
    /\ trace = <<>>

NextOrder ==
    \/ ChartRequest
    \/ HttpRestaurantChart

SpecOrder == InitOrder /\ [][NextOrder]_vars

SeriesAnswered ==
    /\ HttpAnswered
    /\ resp.op \in {"chart", "restaurant_chart"}
    /\ resp.status = 200

\* C27: the chart series of /pizza-index/chart-data and of
\* /restaurant/{id}/chart-data is in strictly ascending order of bucket
\* start, so no bucket is in it twice and its last element is the most
\* recent bucket reported, in whatever order the store gave the rows.
C27_SeriesAscending ==
    SeriesAnswered =>
        \A i \in DOMAIN resp.body.chart_data : \A j \in DOMAIN resp.body.chart_data :
            i < j => resp.body.chart_data[i].timestamp < resp.body.chart_data[j].timestamp

\* Three rows of three hours given latest first, and an hour series of
\* /pizza-index/chart-data with two points.
C27_Witness ==
    /\ SeriesAnswered
    /\ resp.op = "chart"
    /\ resp.interval = "hour"
    /\ Len(store) = 3
    /\ \A i \in 1..2 : store[i].timestamp.sec > store[i + 1].timestamp.sec
    /\ Len(resp.body.chart_data) = 2

(***************************************************************************)
(* A paginated fetch while the collector appends: the table grows by rows  *)
(* later than every row it holds, before the fetch, between its page       *)
(* requests and after it.                                                  *)
(***************************************************************************)
MaxAppendRows == 5

\* The first row's instant, before the cutoff of the chart handlers
\* (200000 - 86400), and the steps from one row to the next.
AppendFirstSec == 100000

AppendSteps == {10, 20000}

InitAppend ==
    /\ now = 200000
    /\ ticks = 0
    /\ store = <<>>
    /\ request_cache = EmptyDict
    /\ performance_stats = InitStats
    /\ puts = EmptyDict
    /\ got = NoCall
    /\ resp = NoCall
    /\ fetch = NoCall
    /\ aggregates = {}
    /\ tasks = <<>>
    /\ trace = <<>>

\* The collector adds a sample later than every sample of the table.
AppendRow ==
    /\ Len(store) < MaxAppendRows
    /\ \E step \in AppendSteps :
        LET sec == IF store = <<>> THEN AppendFirstSec
                   ELSE store[Len(store)].timestamp.sec + step
        IN  /\ sec <= now
            /\ store' = Append(store,
                               Row(Len(store) + 1, "extreme_pizza",
                                   [text |-> "datetime", sec |-> sec,
                                    frac |-> <<1, 2, 3, 4, 5, 6>>, tz |-> "+00:00"], 10, NULL))
    /\ UNCHANGED <<now, ticks, request_cache, performance_stats, puts, got, resp, fetch,
                   aggregates, tasks, trace>>

\* A fetch of the chart handler (main.py:468-471) or of the batch job
\* (backfill.py:18-20) up to its first page request; got keeps the table as
\* it was at that moment.
AppendStart ==
    /\ fetch = NoCall
    /\ \E who \in {"chart", "backfill"} :
        fetch' = IF who = "chart" THEN NewFetch("chart", 1, "hour", now - SecondsOfDays(1))
                 ELSE NewFetch("backfill", 0, "all", 0)
    /\ got' = [op |-> "fetch_started", store |-> store]
    /\ UNCHANGED <<now, ticks, store, request_cache, performance_stats, puts, resp,
                   aggregates, tasks, trace>>

NextAppend ==
    \/ AppendRow
    \/ AppendStart
    \/ FetchPage

SpecAppend == InitAppend /\ [][NextAppend]_vars

\* The rows the fetch was entitled to when it started.
PresentAtStart == Matching(got.store, fetch.cutoff)

Occurrences(seq, row) == Cardinality({i \in DOMAIN seq : seq[i].id = row.id})

\* C30: while the collector only appends rows later than every row of the
\* table, the rows a fetch has read are in ascending order of timestamp with
\* no row twice, and a fetch that returned with every page answered 200 has
\* read every row the table held for it when it started, each exactly once.
C30_AppendSafePagination ==
    fetch # NoCall =>
        /\ \A i \in DOMAIN fetch.all_data : \A j \in DOMAIN fetch.all_data :
              i < j => /\ fetch.all_data[i].id # fetch.all_data[j].id
                       /\ fetch.all_data[i].timestamp.sec <= fetch.all_data[j].timestamp.sec
        /\ (fetch.pc = "returned" /\ ~fetch.failed) =>
              \A i \in DOMAIN PresentAtStart :
                  Occurrences(fetch.all_data, PresentAtStart[i]) = 1

\* A fetch that started over three rows, which are a full page and a short
\* one, and made three page requests: a row appended while it ran filled
\* its second page.
C30_Witness ==
    /\ fetch # NoCall
    /\ fetch.pc = "returned"
    /\ ~fetch.failed
    /\ Len(PresentAtStart) = page_size + 1
    /\ Len(fetch.requests) = 3
    /\ Len(fetch.all_data) > Len(PresentAtStart)
    /\ \A i \in DOMAIN PresentAtStart : Occurrences(fetch.all_data, PresentAtStart[i]) = 1

====
